---- MODULE Spec2Model ----
(***************************************************************************)
(* Model of the DataCrunch Cluster API infrastructure provider: the        *)
(* DataCrunchMachine and DataCrunchCluster reconcilers, the part of the    *)
(* DataCrunch REST client they drive, the declarative store holding the    *)
(* objects and the cloud holding the instances.                            *)
(*                                                                         *)
(* Go values are modelled as follows: a string is a TLA+ string; a nil-able*)
(* pointer is the empty tuple (nil) or a one-element tuple holding the     *)
(* pointee; an error is a nil-able pointer to its message; a struct is a   *)
(* record.  A function of the source that talks to the cloud becomes an    *)
(* operator that takes the cloud and returns the SET of its possible       *)
(* outcomes, each carrying the cloud after the call.                       *)
(***************************************************************************)
EXTENDS Integers, Sequences, FiniteSets, TLC

VARIABLES
    dm,          \* the DataCrunchMachine object as persisted in the store
    erased,      \* TRUE once the store has erased the object
    ext,         \* the related objects: owner Machine, Cluster, pause marker
    instances,   \* the cloud: instance id -> instance data, live instances only
    nextId,      \* the cloud: number of instance ids handed out so far
    createCalls, \* history: number of Client.CreateInstance calls issued
    last,        \* history: what the last Reconcile invocation did
    queued,      \* the dispatcher holds the machine's key: a reconcile is due
    dc,          \* the DataCrunchCluster object as persisted in the store
    dcErased,    \* TRUE once the store has erased the DataCrunchCluster
    dcExt,       \* the objects related to it: owner Cluster, pause marker
    dcLast,      \* history: what the last invocation for the cluster's key did
    dcQueued,    \* the dispatcher holds the cluster's key
    dcSucceeded, \* history: some invocation had both sub-reconciliations succeed
    pStore,      \* two machines: name -> the DataCrunchMachine object in the store
    pCloud,      \* two machines: the cloud they share
    pNextId,     \* two machines: number of instance ids handed out so far
    pLocal,      \* two machines: name -> the local variables of its invocation
    pCalls,      \* two machines: name -> the cloud calls made for it so far
    alone,       \* two machines: name -> the same machine reconciled on its own
    dcClient,    \* a Client on its own: its cached token and the token's expiry
    now,         \* a Client on its own: the clock
    wire         \* history: what the last operation of the Client put on the wire

machineVars == <<dm, erased, ext, instances, nextId, createCalls, last, queued>>
clusterVars == <<dc, dcErased, dcExt, dcLast, dcQueued, dcSucceeded>>
pairVars == <<pStore, pCloud, pNextId, pLocal, pCalls, alone>>
clientVars == <<dcClient, now, wire>>
vars == <<machineVars, clusterVars, pairVars, clientVars>>

(***************************************************************************)
(* Bounds of the model.                                                    *)
(***************************************************************************)
MaxCreateCalls == 2   \* CreateInstance calls explored per machine
MaxClientCreates == 1 \* CreateInstance calls explored per Client
MaxTime == 3          \* ticks of the clock a Client is followed for

(***************************************************************************)
(* Go pointers, errors and results.                                        *)
(***************************************************************************)
Nil == <<>>
Some(x) == <<x>>
Deref(p) == p[1]

\* reconcile.Result{} and reconcile.Result{RequeueAfter: 30 * time.Second}
RequeueDelay == 30
NoRequeue == [requeueAfter |-> 0]

\* mutant of RequeueAfter30: no requeue is asked for
RequeueAfter30_Dropped == [requeueAfter |-> 0]

RequeueAfter30 == [requeueAfter |-> RequeueDelay]

(***************************************************************************)
(* The cloud and the REST client (pkg/cloud/datacrunch/client.go).         *)
(* `f` is what happens to the one HTTP exchange of a call: "ok" (the        *)
(* server answers as its state dictates), "transport" (makeRequest returns *)
(* an error: authentication or the round trip failed, nothing reached the  *)
(* instance API) or "status" (the server answers 500 and does nothing).    *)
(***************************************************************************)
InstanceStates == {"pending", "running", "stopped", "terminated", "shutting-down"}
PrivateIPs == {"", "10.0.1.100"}
PublicIPs == {"", "192.168.1.100"}
TransportError == "authentication failed with status: 401"

InstanceID(n) == "i" \o ToString(n)

\* cloud.Instance as GetInstance decodes it from the response body
Instance(id, data) ==
    [ID |-> id, Name |-> data.hostname, State |-> data.status,
     ImageID |-> data.image, PublicIP |-> data.public_ip, PrivateIP |-> data.private_ip]

\* The HTTP status of an exchange: 0 when makeRequest returned an error and
\* there is no response, 500 when the server fails, else what the server
\* answers from its state.
Status(f, answer) ==
    IF f = "transport" THEN 0 ELSE IF f = "status" THEN 500 ELSE answer

NotFoundMessage(instanceID) == "instance not found: " \o instanceID

\* GET /instances/{id}: 200 with the instance, 404 when there is none
GetInstance(cloud, instanceID, f) ==
    LET status == Status(f, IF instanceID \in DOMAIN cloud THEN 200 ELSE 404) IN
    IF status = 0
    THEN [inst |-> Nil, status |-> status,
          err |-> Some("failed to get instance: " \o TransportError)]
    ELSE IF status = 404
    THEN [inst |-> Nil, status |-> status, err |-> Some(NotFoundMessage(instanceID))]
    ELSE IF status # 200
    THEN [inst |-> Nil, status |-> status,
          err |-> Some("failed to get instance, status: " \o ToString(status))]
    ELSE [inst |-> Some(Instance(instanceID, cloud[instanceID])), status |-> status,
          err |-> Nil]

\* the data of a new instance: it starts pending, with no address assigned yet
NewInstanceData(payload) ==
    [hostname |-> payload.hostname, image |-> payload.image, status |-> "pending",
     private_ip |-> "", public_ip |-> ""]

\* POST /instances (201 and the new id) followed by GetInstance of that id.
\* fPost and fGet are the fates of the two exchanges; the status reported is
\* that of the exchange that decided the call.
CreateInstance(cloud, n, spec, fPost, fGet) ==
    LET payload == [hostname |-> spec.Name, image |-> spec.ImageID]
        status == Status(fPost, 201)
    IN
    IF status = 0
    THEN [cloud |-> cloud, nextId |-> n, inst |-> Nil, status |-> status,
          err |-> Some("failed to create instance: " \o TransportError)]
    ELSE IF status # 201
    THEN [cloud |-> cloud, nextId |-> n, inst |-> Nil, status |-> status,
          err |-> Some("failed to create instance, status: " \o ToString(status))]
    ELSE LET id == InstanceID(n + 1)
             cloud2 == [i \in DOMAIN cloud \cup {id} |->
                           IF i = id THEN NewInstanceData(payload) ELSE cloud[i]]
             got == GetInstance(cloud2, id, fGet)
         IN  [cloud |-> cloud2, nextId |-> n + 1, inst |-> got.inst,
              status |-> got.status, err |-> got.err]

\* DELETE /instances/{id}: 204 and the instance is gone, 404 when there is none
DeleteInstance(cloud, instanceID, f) ==
    LET status == Status(f, IF instanceID \in DOMAIN cloud THEN 204 ELSE 404) IN
    IF status = 0
    THEN [cloud |-> cloud, status |-> status,
          err |-> Some("failed to delete instance: " \o TransportError)]
    ELSE IF status # 204 /\ status # 200
    THEN [cloud |-> cloud, status |-> status,
          err |-> Some("failed to delete instance, status: " \o ToString(status))]
    ELSE [cloud |-> [i \in DOMAIN cloud \ {instanceID} |-> cloud[i]], status |-> status,
          err |-> Nil]

\* the states a start request may have put the instance in by the time the
\* call returns: not yet effective, booting, or up
StartEffects == {"stopped", "pending", "running"}

\* mutant of StartInstance: the response status is not looked at
StartInstance_IgnoresStatus(cloud, instanceID, f) ==
    {[cloud |-> cloud, status |-> Status(f, IF instanceID \in DOMAIN cloud THEN 200 ELSE 404),
      err |-> Nil]}

\* POST /instances/{id}/start: 200 when the instance exists, 404 when not
StartInstance(cloud, instanceID, f) ==
    LET status == Status(f, IF instanceID \in DOMAIN cloud THEN 200 ELSE 404) IN
    IF status = 0
    THEN {[cloud |-> cloud, status |-> status,
           err |-> Some("failed to start instance: " \o TransportError)]}
    ELSE IF status # 200
    THEN {[cloud |-> cloud, status |-> status,
           err |-> Some("failed to start instance, status: " \o ToString(status))]}
    ELSE {[cloud |-> [cloud EXCEPT ![instanceID].status = s], status |-> status,
           err |-> Nil] : s \in StartEffects}

\* the states a stop request may have put the instance in by the time the
\* call returns: not yet effective, or down
StopEffects == {"running", "stopped"}

\* POST /instances/{id}/stop: 200 when the instance exists, 404 when not
StopInstance(cloud, instanceID, f) ==
    LET status == Status(f, IF instanceID \in DOMAIN cloud THEN 200 ELSE 404) IN
    IF status = 0
    THEN {[cloud |-> cloud, status |-> status,
           err |-> Some("failed to stop instance: " \o TransportError)]}
    ELSE IF status # 200
    THEN {[cloud |-> cloud, status |-> status,
           err |-> Some("failed to stop instance, status: " \o ToString(status))]}
    ELSE {[cloud |-> [cloud EXCEPT ![instanceID].status = s], status |-> status,
           err |-> Nil] : s \in StopEffects}

\* NewClient: no token yet, the expiry is the zero time
NewClient == [token |-> "", tokenExpiry |-> 0]

\* What POST /oauth/token is answered: 200 with a token and its lifetime in
\* ticks (a server may send an empty token or no lifetime), or 401.
Tokens == {"", "mock-token-12345"}
TokenLifetime == 2     \* ticks a granted token is good for
AuthAnswers ==
    [kind : {"ok"}, access_token : Tokens, expires_in : {TokenLifetime}]
    \cup {[kind |-> "denied", access_token |-> "", expires_in |-> 0]}

\* mutant of TokenValid: a token, once there, is used for ever
TokenValid_IgnoresExpiry(c, t) == c.token # ""

\* c.token != "" && time.Now().Before(c.tokenExpiry)
TokenValid(c, t) == c.token # "" /\ t < c.tokenExpiry

\* Client.authenticate at time t, the token endpoint answering `answer` if
\* it is asked: the client before and after, whether the token request was
\* sent, what it was answered, the error returned
authenticate(c, t, answer) ==
    IF TokenValid(c, t)
    THEN [before |-> c, at |-> t, sent |-> FALSE, answer |-> Nil, after |-> c, err |-> Nil]
    ELSE IF answer.kind # "ok"
    THEN [before |-> c, at |-> t, sent |-> TRUE, answer |-> Some(answer), after |-> c,
          err |-> Some(TransportError)]
    ELSE [before |-> c, at |-> t, sent |-> TRUE, answer |-> Some(answer),
          after |-> [token |-> answer.access_token, tokenExpiry |-> t + answer.expires_in],
          err |-> Nil]

\* mutant of makeRequest: the request goes out whether or not authenticate failed
makeRequest_SendsUnauthenticated(auth, f) == f

\* Client.makeRequest: the fate of the exchange given how authenticate ended
\* and what the server does with the request (f) if it is sent
makeRequest(auth, f) == IF auth.err # Nil THEN "transport" ELSE f

(***************************************************************************)
(* The DataCrunchMachine object and the objects related to it.             *)
(***************************************************************************)
MachineName == "test-machine"
ClusterName == "test-cluster"
DefaultImage == "ubuntu-22.04-cuda-12.1"
ClusterNameTag == "cluster.x-k8s.io/cluster-name"
MachineNameTag == "cluster.x-k8s.io/machine-name"

\* a DataCrunchMachine as a user applies it, before any reconcile
NewDataCrunchMachine(image, tags) ==
    [name |-> MachineName,
     finalizer |-> FALSE,            \* MachineFinalizer is among metadata.finalizers
     deletionTimestamp |-> FALSE,    \* metadata.deletionTimestamp is set
     image |-> image,                \* spec.image
     additionalTags |-> tags,        \* spec.additionalTags: nil or a map
     providerID |-> Nil,             \* spec.providerID
     ready |-> FALSE,                \* status.ready
     addresses |-> <<>>,             \* status.addresses
     instanceState |-> Nil,          \* status.instanceState
     condition |-> Nil,              \* status.conditions[InstanceReady]
     failureReason |-> Nil,          \* status.failureReason
     failureMessage |-> Nil]         \* status.failureMessage

\* conditions.MarkTrue / conditions.MarkFalse on the InstanceReady condition
MarkTrue(m) ==
    [m EXCEPT !.condition =
        Some([status |-> "True", reason |-> "", severity |-> "", message |-> ""])]

MarkFalse(m, reason, severity, message) ==
    [m EXCEPT !.condition =
        Some([status |-> "False", reason |-> reason, severity |-> severity,
              message |-> message])]

\* clusterv1.MachineAddress
MachineAddress(type, address) == [type |-> type, address |-> address]

\* one cloud call as the history records it: the client operation, the
\* instance id it was given and the HTTP status that decided it
Call(op, id, status) == [op |-> op, id |-> id, status |-> status]

\* the fate of exchange `op` under the fault injected into this invocation;
\* every fault ends the invocation's cloud calls, so one per invocation covers all
FaultFor(fault, op) == IF fault.op = op THEN fault.kind ELSE "ok"

NoFault == [op |-> "none", kind |-> "ok"]
Faults ==
    {NoFault} \cup
    [op : {"get"}, kind : {"transport", "status"}] \cup
    [op : {"secret", "post", "createget", "start", "delete"}, kind : {"status"}]

(***************************************************************************)
(* DataCrunchMachineReconciler (src/unnamed/part_001).                     *)
(***************************************************************************)
\* createDataCrunchClient: placeholder credentials, never fails
createDataCrunchClient == [client |-> TRUE, err |-> Nil]

ProviderIDPrefix == "datacrunch://"
ProviderIDPrefixLen == 13

\* fmt.Sprintf("datacrunch://%s", instance.ID)
FormatProviderID(id) == ProviderIDPrefix \o id

\* mutant of ParseProviderID: the prefix is not cut off
ParseProviderID_KeepsPrefix(providerID) == providerID

\* the instance id findInstance extracts from a provider id
ParseProviderID(providerID) ==
    IF Len(providerID) > ProviderIDPrefixLen
    THEN SubSeq(providerID, ProviderIDPrefixLen + 1, Len(providerID))
    ELSE ""

\* mutant of IsNotFound: the text compared with lacks the instance id
IsNotFound_WithoutID(err, instanceID) == Deref(err) = "instance not found"

\* the error text findInstance takes to mean "absent"
IsNotFound(err, instanceID) == Deref(err) = "instance not found: " \o instanceID

\* a lookup that called nothing and found nothing
NoLookup == [inst |-> Nil, err |-> Nil, calls |-> <<>>]

findInstance(cloud, m, fault) ==
    LET instanceID == IF m.providerID # Nil THEN ParseProviderID(Deref(m.providerID)) ELSE "" IN
    IF m.providerID # Nil /\ instanceID # ""
    THEN LET got == GetInstance(cloud, instanceID, FaultFor(fault, "get"))
             calls == <<Call("GetInstance", instanceID, got.status)>>
         IN  IF got.err # Nil
             THEN IF IsNotFound(got.err, instanceID)
                  THEN [inst |-> Nil, err |-> Nil, calls |-> calls]
                  ELSE [inst |-> Nil, err |-> got.err, calls |-> calls]
             ELSE [inst |-> got.inst, err |-> Nil, calls |-> calls]
    ELSE NoLookup

\* getBootstrapData: the secret named by the owner Machine, base64 of its
\* "value"; the fault is the secret missing its value key
getBootstrapData(e, fault) ==
    IF ~e.dataSecretName
    THEN [data |-> "", err |-> Some("error retrieving bootstrap data: linked Machine's bootstrap.dataSecretName is nil")]
    ELSE IF FaultFor(fault, "secret") # "ok"
    THEN [data |-> "", err |-> Some("error retrieving bootstrap data: secret value key is missing")]
    ELSE [data |-> "base64", err |-> Nil]

\* the tags of the creation request; a non-nil spec.additionalTags map is
\* shared with the request, so the two entries land in the object's map too
WithOwnershipTags(tags) ==
    LET old == IF tags = Nil THEN <<>> ELSE Deref(tags) IN
    [k \in DOMAIN old \cup {ClusterNameTag, MachineNameTag} |->
        IF k = ClusterNameTag THEN ClusterName
        ELSE IF k = MachineNameTag THEN MachineName ELSE old[k]]

createInstance(cloud, n, m, e, fault) ==
    LET boot == getBootstrapData(e, fault) IN
    IF boot.err # Nil
    THEN [m |-> m, cloud |-> cloud, nextId |-> n, inst |-> Nil, calls |-> <<>>,
          err |-> Some("failed to get bootstrap data: " \o Deref(boot.err))]
    ELSE LET tags == WithOwnershipTags(m.additionalTags)
             instanceSpec == [Name |-> m.name,
                              ImageID |-> IF m.image = "" THEN DefaultImage ELSE m.image,
                              Tags |-> tags]
             m2 == IF m.additionalTags = Nil THEN m
                   ELSE [m EXCEPT !.additionalTags = Some(tags)]
             c == CreateInstance(cloud, n, instanceSpec,
                                 FaultFor(fault, "post"), FaultFor(fault, "createget"))
         IN  [m |-> m2, cloud |-> c.cloud, nextId |-> c.nextId,
              calls |-> <<Call("CreateInstance", "", c.status)>>,
              inst |-> IF c.err # Nil THEN Nil ELSE c.inst,
              err |-> IF c.err # Nil
                      THEN Some("failed to create DataCrunch instance: " \o Deref(c.err))
                      ELSE Nil]

\* What one reconcileNormal / reconcileDelete run comes to: the object as
\* mutated in memory, the returned (Result, error), the cloud afterwards,
\* what findInstance returned, the cloud calls made in order, the events
\* emitted and the instance the run went by.
Outcome(m, result, err, cloud, n, found, moreCalls, events, inst) ==
    [m |-> m, result |-> result, err |-> err, cloud |-> cloud, nextId |-> n,
     lookup |-> [inst |-> found.inst, err |-> found.err],
     calls |-> found.calls \o moreCalls, events |-> events, inst |-> inst]

\* mutant of IsTerminal: the error state is not looked at
IsTerminal_Never(m) == FALSE

\* the error state check at the head of reconcileNormal
IsTerminal(m) == m.failureReason # Nil \/ m.failureMessage # Nil

\* mutant of Addresses: the external address is put before the internal one
Addresses_ExternalFirst(instance) ==
    <<MachineAddress("Hostname", instance.Name)>>
    \o (IF instance.PublicIP # "" THEN <<MachineAddress("ExternalIP", instance.PublicIP)>> ELSE <<>>)
    \o (IF instance.PrivateIP # "" THEN <<MachineAddress("InternalIP", instance.PrivateIP)>> ELSE <<>>)

\* the address list of a running instance
Addresses(instance) ==
    <<MachineAddress("Hostname", instance.Name)>>
    \o (IF instance.PrivateIP # "" THEN <<MachineAddress("InternalIP", instance.PrivateIP)>> ELSE <<>>)
    \o (IF instance.PublicIP # "" THEN <<MachineAddress("ExternalIP", instance.PublicIP)>> ELSE <<>>)

\* mutant of StampProviderID: the provider id is overwritten on every reconcile
StampProviderID_Always(m, instance) ==
    [m EXCEPT !.providerID = Some("datacrunch://" \o instance.ID)]

\* mutant of StampProviderID: the provider id is never recorded
StampProviderID_Never(m, instance) == m

\* the provider id is set only while it is nil
StampProviderID(m, instance) ==
    IF m.providerID = Nil
    THEN [m EXCEPT !.providerID = Some(FormatProviderID(instance.ID))]
    ELSE m

\* mutant of TerminatedFailure: the failure message is left unset
TerminatedFailure_ReasonOnly(m) == [m EXCEPT !.failureReason = Some("UpdateError")]

\* the terminated case: failureReason and failureMessage are set
TerminatedFailure(m) ==
    [m EXCEPT !.failureReason = Some("UpdateError"),
              !.failureMessage = Some("Instance was terminated")]

\* mutant of UnknownStateMessage: the state is left out of the message
UnknownStateMessage_WithoutState(state) == "Instance is in unknown state"

\* fmt.Sprintf("Instance is in unknown state: %s", instance.State)
UnknownStateMessage(state) == "Instance is in unknown state: " \o state

\* mutant of ContainsFinalizer: the finalizer is taken to be there
ContainsFinalizer_Always(m) == TRUE

\* controllerutil.ContainsFinalizer(dataCrunchMachine, MachineFinalizer)
ContainsFinalizer(m) == m.finalizer

\* mutant of RemoveFinalizer: the finalizer is left in place
RemoveFinalizer_Noop(m) == m

\* controllerutil.RemoveFinalizer(dataCrunchMachine, MachineFinalizer)
RemoveFinalizer(m) == [m EXCEPT !.finalizer = FALSE]

\* mutant of DeleteFailed: a failed deletion is taken for a successful one
DeleteFailed_Never(d) == FALSE

\* the error check on dataCrunchClient.DeleteInstance in reconcileDelete
DeleteFailed(d) == d.err # Nil

\* mutant of InfrastructureReady: the cluster is taken to be ready
InfrastructureReady_Always(e) == TRUE

\* cluster.Status.InfrastructureReady, the cluster-readiness gate
InfrastructureReady(e) == e.infrastructureReady

\* mutant of HasBootstrapData: the secret reference is taken to be there
HasBootstrapData_Always(e) == TRUE

\* machine.Spec.Bootstrap.DataSecretName != nil, the bootstrap-data gate
HasBootstrapData(e) == e.dataSecretName

\* reconcileNormal from "Set the provider ID" to its end: the switch on instance.State
projectState(m0, instance, cloud, n, found, moreCalls, events, fault) ==
    LET m1 == StampProviderID(m0, instance)
        m == [m1 EXCEPT !.instanceState = Some(instance.State)]
        inst == Some(instance)
    IN
    CASE instance.State = "running" ->
            {Outcome([MarkTrue(m) EXCEPT !.ready = TRUE, !.addresses = Addresses(instance)],
                     NoRequeue, Nil, cloud, n, found, moreCalls, events, inst)}
      [] instance.State = "pending" ->
            {Outcome(MarkFalse(m, "InstanceNotReady", "Info", "Instance is pending"),
                     RequeueAfter30, Nil, cloud, n, found, moreCalls, events, inst)}
      [] instance.State = "stopped" ->
            { Outcome(m, RequeueAfter30, s.err, s.cloud, n, found,
                      Append(moreCalls, Call("StartInstance", instance.ID, s.status)),
                      events, inst)
              : s \in StartInstance(cloud, instance.ID, FaultFor(fault, "start")) }
      [] instance.State = "terminated" ->
            {Outcome(MarkFalse(TerminatedFailure(m),
                               "InstanceTerminated", "Error", "Instance was terminated"),
                     NoRequeue, Nil, cloud, n, found, moreCalls, events, inst)}
      [] OTHER ->
            {Outcome(MarkFalse(m, "InstanceNotReady", "Warning",
                               UnknownStateMessage(instance.State)),
                     RequeueAfter30, Nil, cloud, n, found, moreCalls, events, inst)}

\* mutant of CreationFailed: a failed creation is recorded as a terminal failure
CreationFailed_Latches(m, message) ==
    [MarkFalse(m, "InstanceCreationFailed", "Error", message)
        EXCEPT !.failureReason = Some("CreateError"), !.failureMessage = Some(message)]

\* what reconcileNormal records when createInstance failed: the condition only
CreationFailed(m, message) == MarkFalse(m, "InstanceCreationFailed", "Error", message)

\* reconcileNormal up to the lookup of the instance: the outcome when it
\* returns before that, nothing when it goes on to findInstance
reconcileNormalBefore(m, e, cloud, n) ==
    IF IsTerminal(m)
    THEN {Outcome(m, NoRequeue, Nil, cloud, n, NoLookup, <<>>, <<>>, Nil)}
    ELSE IF ~ContainsFinalizer(m)
    THEN {Outcome([m EXCEPT !.finalizer = TRUE], NoRequeue, Nil, cloud, n,
                  NoLookup, <<>>, <<>>, Nil)}
    ELSE IF ~InfrastructureReady(e)
    THEN {Outcome(MarkFalse(m, "WaitingForClusterInfrastructure", "Info", ""),
                  NoRequeue, Nil, cloud, n, NoLookup, <<>>, <<>>, Nil)}
    ELSE IF ~HasBootstrapData(e)
    THEN {Outcome(MarkFalse(m, "WaitingForBootstrapData", "Info", ""),
                  NoRequeue, Nil, cloud, n, NoLookup, <<>>, <<>>, Nil)}
    ELSE IF createDataCrunchClient.err # Nil
    THEN {Outcome(MarkFalse(m, "DataCrunchClientFailed", "Error",
                            Deref(createDataCrunchClient.err)),
                  NoRequeue, createDataCrunchClient.err, cloud, n, NoLookup, <<>>, <<>>, Nil)}
    ELSE {}

\* reconcileNormal from the return of findInstance, which returned `found`
reconcileNormalAfter(m, e, cloud, n, found, fault) ==
    IF found.err # Nil
    THEN {Outcome(m, NoRequeue, found.err, cloud, n, found, <<>>, <<>>, Nil)}
    ELSE IF found.inst = Nil
    THEN LET c == createInstance(cloud, n, m, e, fault) IN
         IF c.err # Nil
         THEN {Outcome(CreationFailed(c.m, Deref(c.err)),
                       NoRequeue, c.err, c.cloud, c.nextId, found, c.calls, <<>>, Nil)}
         ELSE projectState(MarkFalse(c.m, "InstanceNotReady", "Info", ""),
                           Deref(c.inst), c.cloud, c.nextId, found, c.calls,
                           <<"InstanceCreated">>, fault)
    ELSE projectState(m, Deref(found.inst), cloud, n, found, <<>>, <<>>, fault)

reconcileNormal(m, e, cloud, n, fault) ==
    IF reconcileNormalBefore(m, e, cloud, n) # {}
    THEN reconcileNormalBefore(m, e, cloud, n)
    ELSE reconcileNormalAfter(m, e, cloud, n, findInstance(cloud, m, fault), fault)

\* reconcileDelete up to the lookup of the instance: without a client the
\* finalizer is removed at once
reconcileDeleteBefore(m, cloud, n) ==
    LET dataCrunchClient == createDataCrunchClient IN
    IF dataCrunchClient.err # Nil \/ ~dataCrunchClient.client
    THEN {Outcome(RemoveFinalizer(m), NoRequeue, Nil, cloud, n, NoLookup, <<>>, <<>>, Nil)}
    ELSE {}

\* reconcileDelete from the return of findInstance, which returned `found`
reconcileDeleteAfter(m, e, cloud, n, found, fault) ==
    LET removed == RemoveFinalizer(m) IN
    IF found.err # Nil
    THEN {Outcome(removed, NoRequeue, Nil, cloud, n, found, <<>>, <<>>, Nil)}
    ELSE IF found.inst # Nil
    THEN LET id == Deref(found.inst).ID
             d == DeleteInstance(cloud, id, FaultFor(fault, "delete"))
             calls == <<Call("DeleteInstance", id, d.status)>>
         IN  IF DeleteFailed(d)
             THEN {Outcome(m, RequeueAfter30, d.err, d.cloud, n, found, calls, <<>>,
                           found.inst)}
             ELSE {Outcome(removed, NoRequeue, Nil, d.cloud, n, found, calls,
                           <<"InstanceDeleted">>, found.inst)}
    ELSE {Outcome(removed, NoRequeue, Nil, cloud, n, found, <<>>, <<>>, Nil)}

reconcileDelete(m, e, cloud, n, fault) ==
    IF reconcileDeleteBefore(m, cloud, n) # {}
    THEN reconcileDeleteBefore(m, cloud, n)
    ELSE reconcileDeleteAfter(m, e, cloud, n, findInstance(cloud, m, fault), fault)

(***************************************************************************)
(* Reconcile: one invocation for the machine's key, from the fetch of the  *)
(* object to the deferred patch.  The dispatcher runs at most one at a     *)
(* time per key, so the invocation is one step.                            *)
(***************************************************************************)
NoLast ==
    [branch |-> "none", pre |-> Nil, post |-> Nil, observed |-> Nil,
     lookup |-> [inst |-> Nil, err |-> Nil],
     result |-> NoRequeue, err |-> Nil, reterr |-> Nil, calls |-> <<>>,
     events |-> <<>>, patched |-> FALSE, settled |-> FALSE, prior |-> FALSE,
     gone |-> FALSE]

\* the number of CreateInstance calls among `calls`
NumCreate(calls) == Cardinality({i \in DOMAIN calls : calls[i].op = "CreateInstance"})

\* mutant of ObjectNotFound: a key is taken to name an object still stored
ObjectNotFound_Never == FALSE

\* r.Get of the key answers NotFound: the store has erased the object
ObjectNotFound == erased

\* mutant of ReturnsEarly: the pause marker is not looked at
ReturnsEarly_IgnoresPause == ObjectNotFound \/ ~ext.ownerRef

\* the invocations that return before the patch helper exists: the object is
\* gone from the store, its owner Machine is not set yet, or it is paused
ReturnsEarly == ObjectNotFound \/ ~ext.ownerRef \/ ext.paused

\* The dispatcher after an invocation: it holds the key again when the
\* invocation returned an error or a requeue-after, and when the patch changed
\* the stored object (the change comes back as an event).
Requeues(result, reterr, before, after) ==
    result.requeueAfter > 0 \/ reterr # Nil \/ after # before

\* the deferred patchHelper.Patch: a patch that has to write can fail
Patched(before, after, patchOK) == patchOK \/ after = before

\* mutant of ReturnedError: the error of the deferred patch is dropped
ReturnedError_PatchErrorDropped(err, patched, kind) == err

\* reterr as the deferred function leaves it: the error of the reconcile, or
\* else the error of the patch
ReturnedError(err, patched, kind) ==
    IF err # Nil THEN err
    ELSE IF ~patched THEN Some("failed to patch " \o kind)
    ELSE Nil

\* the cloud still holds the instance as the invocation saw it (it saw none,
\* or its own start call has not moved the instance yet)
Settled(out) ==
    \/ out.inst = Nil
    \/ LET id == Deref(out.inst).ID IN
       id \in DOMAIN out.cloud /\ Instance(id, out.cloud[id]) = Deref(out.inst)

\* the invocation before this one was a normal one past the finalizer step,
\* ran without a failure, was persisted and left the cloud as it saw it, and
\* nothing external happened since
Undisturbed(l) ==
    /\ l.branch = "normal"
    /\ l.err = Nil
    /\ l.patched
    /\ l.settled
    /\ Deref(l.pre).finalizer

\* mutant of BeingDeleted: the deletion timestamp is not looked at
BeingDeleted_Never(m) == FALSE

\* !dataCrunchMachine.ObjectMeta.DeletionTimestamp.IsZero()
BeingDeleted(m) == m.deletionTimestamp

\* One invocation; `fault` is what goes wrong in it and `patchOK` whether the
\* deferred patch succeeds.
Invoke(fault, patchOK) ==
    /\ queued
    /\  IF ReturnsEarly
        THEN /\ last' = [NoLast EXCEPT !.branch = "early", !.gone = erased]
             /\ queued' = FALSE
             /\ UNCHANGED <<dm, erased, ext, instances, nextId, createCalls>>
             /\ UNCHANGED <<clusterVars, pairVars, clientVars>>
        ELSE \E out \in (IF BeingDeleted(dm)
                         THEN reconcileDelete(dm, ext, instances, nextId, fault)
                         ELSE reconcileNormal(dm, ext, instances, nextId, fault)) :
             LET patched == Patched(dm, out.m, patchOK) IN
             /\ createCalls + NumCreate(out.calls) <= MaxCreateCalls
             /\ dm' = IF patched THEN out.m ELSE dm
             /\ erased' = (patched /\ out.m.deletionTimestamp /\ ~out.m.finalizer)
             /\ instances' = out.cloud
             /\ nextId' = out.nextId
             /\ createCalls' = createCalls + NumCreate(out.calls)
             /\ last' = [branch |-> IF BeingDeleted(dm) THEN "delete" ELSE "normal",
                         pre |-> Some(dm), post |-> Some(out.m),
                         observed |-> out.inst, lookup |-> out.lookup,
                         result |-> out.result, err |-> out.err,
                         reterr |-> ReturnedError(out.err, patched, "DataCrunchMachine"),
                         calls |-> out.calls, events |-> out.events, patched |-> patched,
                         settled |-> Settled(out), prior |-> Undisturbed(last),
                         gone |-> erased]
             /\ queued' = Requeues(out.result, last'.reterr, dm, dm')
             /\ UNCHANGED ext
             /\ UNCHANGED <<clusterVars, pairVars, clientVars>>

Reconcile == \E fault \in Faults, patchOK \in BOOLEAN : Invoke(fault, patchOK)

(***************************************************************************)
(* The environment: the other controllers, the user and the cloud.         *)
(***************************************************************************)
\* a change the machine's key is not enqueued for: the reconciler watches
\* DataCrunchMachine objects only
External == /\ last' = NoLast
            /\ UNCHANGED <<createCalls, queued>>
            /\ UNCHANGED <<clusterVars, pairVars, clientVars>>

\* a change to the DataCrunchMachine object itself: its key is enqueued
ExternalEvent == /\ last' = NoLast
                 /\ queued' = TRUE
                 /\ UNCHANGED createCalls
                 /\ UNCHANGED <<clusterVars, pairVars, clientVars>>

\* the Machine controller sets the owner reference
SetOwnerRef ==
    /\ ~erased
    /\ ~ext.ownerRef
    /\ ext' = [ext EXCEPT !.ownerRef = TRUE]
    /\ ExternalEvent
    /\ UNCHANGED <<dm, erased, instances, nextId>>

\* the Cluster reports status.infrastructureReady
InfrastructureBecomesReady ==
    /\ ~ext.infrastructureReady
    /\ ext' = [ext EXCEPT !.infrastructureReady = TRUE]
    /\ External
    /\ UNCHANGED <<dm, erased, instances, nextId>>

\* the bootstrap provider sets spec.bootstrap.dataSecretName of the owner Machine
BootstrapDataAvailable ==
    /\ ~ext.dataSecretName
    /\ ext' = [ext EXCEPT !.dataSecretName = TRUE]
    /\ External
    /\ UNCHANGED <<dm, erased, instances, nextId>>

\* the paused annotation is put on or taken off
TogglePaused ==
    /\ ~erased
    /\ ext' = [ext EXCEPT !.paused = ~ext.paused]
    /\ External
    /\ UNCHANGED <<dm, erased, instances, nextId>>

\* the object is deleted: the store marks it, and erases it at once when it
\* carries no finalizer
SetDeletionTimestamp ==
    /\ ~erased
    /\ ~dm.deletionTimestamp
    /\ dm' = [dm EXCEPT !.deletionTimestamp = TRUE]
    /\ erased' = ~dm.finalizer
    /\ ExternalEvent
    /\ UNCHANGED <<ext, instances, nextId>>

\* The instance the persisted provider id names.  It is the only instance
\* whose data any invocation reads, so it is the only one the cloud is
\* followed on; the others stay as created until they are deleted.
Referenced(id) ==
    dm.providerID # Nil /\ ParseProviderID(Deref(dm.providerID)) = id

\* the cloud moves the instance to another state
CloudSetState ==
    \E id \in DOMAIN instances, s \in InstanceStates :
        /\ Referenced(id)
        /\ instances[id].status # s
        /\ instances' = [instances EXCEPT ![id].status = s]
        /\ External
        /\ UNCHANGED <<dm, erased, ext, nextId>>

\* the cloud assigns or withdraws the instance's addresses
CloudSetAddresses ==
    \E id \in DOMAIN instances, priv \in PrivateIPs, pub \in PublicIPs :
        /\ Referenced(id)
        /\ <<instances[id].private_ip, instances[id].public_ip>> # <<priv, pub>>
        /\ instances' = [instances EXCEPT ![id].private_ip = priv, ![id].public_ip = pub]
        /\ External
        /\ UNCHANGED <<dm, erased, ext, nextId>>

\* the instance is deleted behind the reconciler's back
CloudRemoveInstance ==
    \E id \in DOMAIN instances :
        /\ Referenced(id)
        /\ instances' = [i \in DOMAIN instances \ {id} |-> instances[i]]
        /\ External
        /\ UNCHANGED <<dm, erased, ext, nextId>>

\* An event for the object that the model does not follow otherwise: an edit
\* of a field the reconciler does not read, a resync, a controller restart.
Notify ==
    /\ ~queued
    /\ queued' = TRUE
    /\ UNCHANGED <<dm, erased, ext, instances, nextId, createCalls, last>>
    /\ UNCHANGED <<clusterVars, pairVars, clientVars>>

InitImages == {""}
InitTags == {Nil}

\* the machine as applied, nothing reconciled yet
MachineStart ==
    /\ dm \in {NewDataCrunchMachine(image, tags) : image \in InitImages, tags \in InitTags}
    /\ erased = FALSE
    /\ ext = [ownerRef |-> FALSE, paused |-> FALSE, infrastructureReady |-> FALSE,
              dataSecretName |-> FALSE]
    /\ instances = <<>>
    /\ nextId = 0
    /\ createCalls = 0
    /\ last = NoLast
    /\ queued = TRUE

(***************************************************************************)
(* DataCrunchClusterReconciler (src/version/version_test.go) and the       *)
(* DataCrunchCluster object.                                               *)
(***************************************************************************)
APIServerPort == 6443

\* clusterv1.APIEndpoint and its IsZero
APIEndpoint(host, port) == [host |-> host, port |-> port]
ZeroEndpoint == APIEndpoint("", 0)
IsZero(endpoint) == endpoint.host = "" /\ endpoint.port = 0

\* the endpoint a user may have put into the spec
UserEndpoint == APIEndpoint(ClusterName \o ".datacrunch.local", APIServerPort)

\* a load balancer recorded in status; the reconciler reads it and never writes it
RecordedLoadBalancer == [id |-> "lb-123"]

\* a DataCrunchCluster as applied, before any reconcile
NewDataCrunchCluster(endpoint, loadBalancer) ==
    [name |-> ClusterName,
     finalizer |-> FALSE,                 \* ClusterFinalizer is among metadata.finalizers
     deletionTimestamp |-> FALSE,         \* metadata.deletionTimestamp is set
     controlPlaneEndpoint |-> endpoint,   \* spec.controlPlaneEndpoint
     ready |-> FALSE,                     \* status.ready
     network |-> Nil,                     \* status.network
     failureDomains |-> Nil,              \* status.failureDomains
     loadBalancer |-> loadBalancer,       \* status.loadBalancer
     networkCondition |-> Nil,            \* status.conditions[NetworkInfrastructureReady]
     loadBalancerCondition |-> Nil]       \* status.conditions[LoadBalancerReady]

ConditionTrue == Some([status |-> "True", reason |-> "", severity |-> "", message |-> ""])

ConditionFalse(reason, severity, message) ==
    Some([status |-> "False", reason |-> reason, severity |-> severity, message |-> message])

\* Client.DeleteLoadBalancer: not implemented, always an error
DeleteLoadBalancer(lbID) == Some("load balancer deletion not yet implemented")

\* DataCrunchClusterReconciler.createDataCrunchClient: never fails
clusterCreateDataCrunchClient == [client |-> TRUE, err |-> Nil]

\* mutant of reconcileNetwork: both fields are set anew on every run
reconcileNetwork_Resets(c) ==
    [c |-> [c EXCEPT !.network = Some("empty"),
                     !.failureDomains = Some([default |-> [controlPlane |-> TRUE]])],
     err |-> Nil]

\* reconcileNetwork: status.network and the default failure domain are
\* initialised when absent; it always succeeds
reconcileNetwork(c) ==
    LET c1 == IF c.network = Nil THEN [c EXCEPT !.network = Some("empty")] ELSE c
        c2 == IF c1.failureDomains = Nil
              THEN [c1 EXCEPT !.failureDomains = Some([default |-> [controlPlane |-> TRUE]])]
              ELSE c1
    IN  [c |-> c2, err |-> Nil]

\* mutant of reconcileLoadBalancer: the placeholder endpoint is set in any case
reconcileLoadBalancer_Overwrites(c, clusterName) ==
    [c |-> [c EXCEPT !.controlPlaneEndpoint =
               APIEndpoint("cluster-" \o clusterName \o ".datacrunch.local", APIServerPort)],
     err |-> Nil]

\* reconcileLoadBalancer: an endpoint that is set is left alone, otherwise
\* the placeholder endpoint is set; it always succeeds
reconcileLoadBalancer(c, clusterName) ==
    IF ~IsZero(c.controlPlaneEndpoint)
    THEN [c |-> c, err |-> Nil]
    ELSE [c |-> [c EXCEPT !.controlPlaneEndpoint =
                     APIEndpoint("cluster-" \o clusterName \o ".datacrunch.local",
                                 APIServerPort)],
          err |-> Nil]

\* what one clusterReconcileNormal / clusterReconcileDelete run comes to;
\* network and loadBalancer say how the sub-reconciliations ended: "none"
\* (not run), "ok" or "failed"; client says whether createDataCrunchClient
\* was called
ClusterOutcome(c, result, err, calls, network, loadBalancer, client) ==
    [c |-> c, result |-> result, err |-> err, calls |-> calls,
     network |-> network, loadBalancer |-> loadBalancer, client |-> client]

\* mutant of ClusterContainsFinalizer: the finalizer is taken to be there
ClusterContainsFinalizer_Always(c) == TRUE

\* controllerutil.ContainsFinalizer(dataCrunchCluster, ClusterFinalizer)
ClusterContainsFinalizer(c) == c.finalizer

\* What the three callees of reconcileNormal return.  As written none of
\* them can fail; `fault` names the one that is made to return an error, so
\* that the error branches of reconcileNormal can be followed: "none",
\* "client", "network" or "loadBalancer".
ClusterFaults == {"none", "client", "network", "loadBalancer"}

ClientUnder(fault) ==
    IF fault = "client"
    THEN [client |-> FALSE, err |-> Some("failed to create DataCrunch client")]
    ELSE clusterCreateDataCrunchClient

NetworkUnder(c, fault) ==
    IF fault = "network"
    THEN [c |-> c, err |-> Some("failed to reconcile network")]
    ELSE reconcileNetwork(c)

LoadBalancerUnder(c, clusterName, fault) ==
    IF fault = "loadBalancer"
    THEN [c |-> c, err |-> Some("failed to reconcile load balancer")]
    ELSE reconcileLoadBalancer(c, clusterName)

\* DataCrunchClusterReconciler.reconcileNormal
clusterReconcileNormalUnder(c, clusterName, fault) ==
    IF ~ClusterContainsFinalizer(c)
    THEN ClusterOutcome([c EXCEPT !.finalizer = TRUE], NoRequeue, Nil, <<>>, "none", "none", FALSE)
    ELSE IF ClientUnder(fault).err # Nil
    THEN ClusterOutcome([c EXCEPT !.networkCondition =
                            ConditionFalse("DataCrunchClientFailed", "Error",
                                           Deref(ClientUnder(fault).err))],
                        NoRequeue, ClientUnder(fault).err, <<>>, "none", "none", TRUE)
    ELSE LET net == NetworkUnder(c, fault) IN
         IF net.err # Nil
         THEN ClusterOutcome([net.c EXCEPT !.networkCondition =
                                 ConditionFalse("NetworkReconciliationFailed", "Error",
                                                Deref(net.err))],
                             RequeueAfter30, net.err, <<>>, "failed", "none", TRUE)
         ELSE LET lb == LoadBalancerUnder(net.c, clusterName, fault) IN
              IF lb.err # Nil
              THEN ClusterOutcome([lb.c EXCEPT !.loadBalancerCondition =
                                      ConditionFalse("LoadBalancerReconciliationFailed",
                                                     "Error", Deref(lb.err))],
                                  RequeueAfter30, lb.err, <<>>, "ok", "failed", TRUE)
              ELSE ClusterOutcome([lb.c EXCEPT !.ready = TRUE,
                                               !.networkCondition = ConditionTrue],
                                  NoRequeue, Nil, <<>>, "ok", "ok", TRUE)

\* reconcileNormal as it runs: none of its callees fails
clusterReconcileNormal(c, clusterName) == clusterReconcileNormalUnder(c, clusterName, "none")

\* mutant of clusterReconcileDelete: a failed deletion of the load balancer
\* is returned and the finalizer kept
clusterReconcileDelete_StopsOnError(c) ==
    IF c.loadBalancer # Nil /\ DeleteLoadBalancer(Deref(c.loadBalancer).id) # Nil
    THEN ClusterOutcome(c, RequeueAfter30, DeleteLoadBalancer(Deref(c.loadBalancer).id),
                        <<Call("DeleteLoadBalancer", Deref(c.loadBalancer).id, 0)>>,
                        "none", "none", TRUE)
    ELSE ClusterOutcome([c EXCEPT !.finalizer = FALSE], NoRequeue, Nil, <<>>,
                        "none", "none", TRUE)

\* DataCrunchClusterReconciler.reconcileDelete: the load balancer recorded in
\* status is deleted, a failure of that is logged only, the finalizer goes
clusterReconcileDelete(c) ==
    LET dataCrunchClient == clusterCreateDataCrunchClient
        calls == IF dataCrunchClient.client /\ c.loadBalancer # Nil
                 THEN <<Call("DeleteLoadBalancer", Deref(c.loadBalancer).id,
                             IF DeleteLoadBalancer(Deref(c.loadBalancer).id) # Nil THEN 0 ELSE 200)>>
                 ELSE <<>>
    IN  ClusterOutcome([c EXCEPT !.finalizer = FALSE], NoRequeue, Nil, calls, "none", "none", TRUE)

ClusterNoLast ==
    [branch |-> "none", gone |-> FALSE, pre |-> Nil, post |-> Nil,
     result |-> NoRequeue, err |-> Nil, reterr |-> Nil, calls |-> <<>>,
     network |-> "none", loadBalancer |-> "none", client |-> FALSE,
     patched |-> FALSE, cluster |-> ""]

\* mutant of ClusterNotFound: a key is taken to name an object still stored
ClusterNotFound_Never == FALSE

\* r.Get of the key answers NotFound: the store has erased the object
ClusterNotFound == dcErased

\* DataCrunchClusterReconciler.Reconcile: one invocation for the cluster's
\* key, `fault` naming the callee of reconcileNormal made to fail
ClusterInvokeUnder(fault, patchOK) ==
    /\ dcQueued
    /\  IF ClusterNotFound \/ ~dcExt.ownerRef \/ dcExt.paused
        THEN /\ dcLast' = [ClusterNoLast EXCEPT !.branch = "early", !.gone = dcErased]
             /\ dcQueued' = FALSE
             /\ UNCHANGED <<dc, dcErased, dcExt, dcSucceeded>>
        ELSE LET out == IF dc.deletionTimestamp
                        THEN clusterReconcileDelete(dc)
                        ELSE IF fault = "none"
                        THEN clusterReconcileNormal(dc, ClusterName)
                        ELSE clusterReconcileNormalUnder(dc, ClusterName, fault)
                 patched == Patched(dc, out.c, patchOK)
             IN  /\ dc' = IF patched THEN out.c ELSE dc
                 /\ dcErased' = (patched /\ out.c.deletionTimestamp /\ ~out.c.finalizer)
                 /\ dcLast' = [branch |-> IF dc.deletionTimestamp THEN "delete" ELSE "normal",
                               gone |-> dcErased,
                               pre |-> Some(dc), post |-> Some(out.c),
                               result |-> out.result, err |-> out.err,
                               reterr |-> ReturnedError(out.err, patched, "DataCrunchCluster"),
                               calls |-> out.calls, network |-> out.network,
                               loadBalancer |-> out.loadBalancer, client |-> out.client,
                               patched |-> patched, cluster |-> ClusterName]
                 /\ dcQueued' = Requeues(out.result, dcLast'.reterr, dc, dc')
                 /\ dcSucceeded' =
                        (dcSucceeded \/ (out.network = "ok" /\ out.loadBalancer = "ok"))
                 /\ UNCHANGED dcExt
    /\ UNCHANGED <<machineVars, pairVars, clientVars>>

\* DataCrunchClusterReconciler.Reconcile as it runs
ClusterInvoke(patchOK) == ClusterInvokeUnder("none", patchOK)

ClusterReconcile == \E patchOK \in BOOLEAN : ClusterInvoke(patchOK)

\* an invocation on the normal branch, past the finalizer step, in which one
\* of the callees of reconcileNormal returns an error
ClusterReconcileFailing ==
    \E fault \in ClusterFaults \ {"none"}, patchOK \in BOOLEAN :
        /\ ~dc.deletionTimestamp
        /\ ClusterContainsFinalizer(dc)
        /\ ClusterInvokeUnder(fault, patchOK)

\* the Cluster controller sets the owner reference
ClusterSetOwnerRef ==
    /\ ~dcErased
    /\ ~dcExt.ownerRef
    /\ dcExt' = [dcExt EXCEPT !.ownerRef = TRUE]
    /\ dcQueued' = TRUE
    /\ UNCHANGED <<dc, dcErased, dcLast, dcSucceeded>>
    /\ UNCHANGED <<machineVars, pairVars, clientVars>>

\* the paused annotation is put on or taken off
ClusterTogglePaused ==
    /\ ~dcErased
    /\ dcExt' = [dcExt EXCEPT !.paused = ~dcExt.paused]
    /\ UNCHANGED <<dc, dcErased, dcLast, dcQueued, dcSucceeded>>
    /\ UNCHANGED <<machineVars, pairVars, clientVars>>

\* the object is deleted: the store marks it, and erases it at once when it
\* carries no finalizer
ClusterSetDeletionTimestamp ==
    /\ ~dcErased
    /\ ~dc.deletionTimestamp
    /\ dc' = [dc EXCEPT !.deletionTimestamp = TRUE]
    /\ dcErased' = ~dc.finalizer
    /\ dcQueued' = TRUE
    /\ UNCHANGED <<dcExt, dcLast, dcSucceeded>>
    /\ UNCHANGED <<machineVars, pairVars, clientVars>>

\* an event for the object that the model does not follow otherwise
ClusterNotify ==
    /\ ~dcQueued
    /\ dcQueued' = TRUE
    /\ UNCHANGED <<dc, dcErased, dcExt, dcLast, dcSucceeded>>
    /\ UNCHANGED <<machineVars, pairVars, clientVars>>

InitEndpoints == {ZeroEndpoint, UserEndpoint}
InitLoadBalancers == {Nil, Some(RecordedLoadBalancer)}

\* the cluster as applied, nothing reconciled yet
ClusterStart ==
    /\ dc \in {NewDataCrunchCluster(endpoint, lb) :
                  endpoint \in InitEndpoints, lb \in InitLoadBalancers}
    /\ dcErased = FALSE
    /\ dcExt = [ownerRef |-> FALSE, paused |-> FALSE]
    /\ dcLast = ClusterNoLast
    /\ dcQueued = TRUE
    /\ dcSucceeded = FALSE

\* the cluster while the machine is followed: as applied, left alone
ClusterAside ==
    /\ dc = NewDataCrunchCluster(ZeroEndpoint, Nil)
    /\ dcErased = FALSE
    /\ dcExt = [ownerRef |-> FALSE, paused |-> FALSE]
    /\ dcLast = ClusterNoLast
    /\ dcQueued = TRUE
    /\ dcSucceeded = FALSE

\* the machine while the cluster is followed: as applied, left alone
MachineAside ==
    /\ dm = NewDataCrunchMachine("", Nil)
    /\ erased = FALSE
    /\ ext = [ownerRef |-> FALSE, paused |-> FALSE, infrastructureReady |-> FALSE,
              dataSecretName |-> FALSE]
    /\ instances = <<>>
    /\ nextId = 0
    /\ createCalls = 0
    /\ last = NoLast
    /\ queued = TRUE

(***************************************************************************)
(* Two DataCrunchMachines reconciled by the one reconciler against the one *)
(* cloud.  The dispatcher runs at most one invocation per key, and the     *)
(* invocations of the two keys interleave at the points where an           *)
(* invocation talks to the store or to the cloud: the Get of the object,   *)
(* the lookup of the instance, the calls that follow it, the deferred      *)
(* patch.  Next to each machine runs the same machine on its own: it sees  *)
(* its own object, its own local variables and only its own instances, and *)
(* takes each step when the machine does, the cloud answering it as it     *)
(* answers the machine (the same new instance id, the same start effect).  *)
(***************************************************************************)
Keys == {"w1-" \o MachineName, "w2-" \o MachineName}

\* the instance states the cloud moves an instance of the two to
PairStates == {"running", "stopped"}

\* CreateDataCrunchMachine(name, namespace) with the finalizer not yet set
NamedDataCrunchMachine(name) == [NewDataCrunchMachine("", Nil) EXCEPT !.name = name]

\* the owner Machine and the Cluster as CreateClusterWithInfra leaves them
\* once the cluster is ready and the bootstrap secret is there
PairExt == [ownerRef |-> TRUE, paused |-> FALSE, infrastructureReady |-> TRUE,
            dataSecretName |-> TRUE]

\* the local variables of an invocation: where it stands, the object it
\* fetched and mutates, what findInstance returned, what it made and returns
IdleLocal == [pc |-> "idle", m |-> Nil, found |-> NoLookup, calls |-> <<>>,
              result |-> NoRequeue, err |-> Nil]

\* mutant of Local: what findInstance returned is kept in a field of the
\* reconciler, which an invocation of the other key overwrites with its own
Local_Shared(locals, k) ==
    IF \E j \in DOMAIN locals : j # k /\ locals[j].pc = "found"
    THEN [locals[k] EXCEPT !.found =
             locals[CHOOSE j \in DOMAIN locals : j # k /\ locals[j].pc = "found"].found]
    ELSE locals[k]

\* the variables an invocation for key k works on: its own
Local(locals, k) == locals[k]

\* the instances of the cloud that were created for machine k
Alone(cloud, k) ==
    [i \in {j \in DOMAIN cloud : cloud[j].hostname = k} |-> cloud[i]]

\* the invocation has its outcome and is left with the deferred patch
Finished(L, out) ==
    [pc |-> "done", m |-> Some(out.m), found |-> L.found, calls |-> out.calls,
     result |-> out.result, err |-> out.err]

\* r.Get: the object is copied out of the store
Fetched(object) == [IdleLocal EXCEPT !.pc = "fetched", !.m = Some(object)]

\* from the Get to the return of findInstance
LookedUp(L, cloud, n) ==
    LET m == Deref(L.m)
        early == IF BeingDeleted(m) THEN reconcileDeleteBefore(m, cloud, n)
                 ELSE reconcileNormalBefore(m, PairExt, cloud, n)
    IN  IF early # {}
        THEN Finished(L, CHOOSE out \in early : TRUE)
        ELSE [L EXCEPT !.pc = "found", !.found = findInstance(cloud, m, NoFault)]

\* from the return of findInstance to the return of reconcileNormal or
\* reconcileDelete, on the cloud as it is by then
Acted(L, cloud, n) ==
    LET m == Deref(L.m) IN
    IF BeingDeleted(m)
    THEN reconcileDeleteAfter(m, PairExt, cloud, n, L.found, NoFault)
    ELSE reconcileNormalAfter(m, PairExt, cloud, n, L.found, NoFault)

\* the deferred patch writes what the invocation changed; a deletion
\* requested meanwhile stays
PatchedObject(stored, L) ==
    [Deref(L.m) EXCEPT !.deletionTimestamp = stored.deletionTimestamp]

\* the store erases an object that is being deleted and has no finalizer
Erased(object) == object.deletionTimestamp /\ ~object.finalizer

\* the cloud answered the machine on its own as it answered the machine
SameAnswer(outAlone, out, k) == outAlone.cloud = Alone(out.cloud, k)

PairFetch(k) ==
    /\ pLocal[k].pc \in {"idle"}
    /\ ~Erased(pStore[k])
    /\ pLocal' = [pLocal EXCEPT ![k] = Fetched(pStore[k])]
    /\ alone' = [alone EXCEPT ![k].local = Fetched(alone[k].store)]
    /\ UNCHANGED <<pStore, pCloud, pNextId, pCalls>>
    /\ UNCHANGED <<machineVars, clusterVars, clientVars>>

PairLookup(k) ==
    /\ Local(pLocal, k).pc = "fetched"
    /\ pLocal' = [pLocal EXCEPT ![k] = LookedUp(Local(pLocal, k), pCloud, pNextId)]
    /\ alone' = [alone EXCEPT ![k].local = LookedUp(alone[k].local, alone[k].cloud, pNextId)]
    /\ UNCHANGED <<pStore, pCloud, pNextId, pCalls>>
    /\ UNCHANGED <<machineVars, clusterVars, clientVars>>

PairAct(k) ==
    /\ Local(pLocal, k).pc = "found"
    /\ \E out \in Acted(Local(pLocal, k), pCloud, pNextId) :
        LET outs == Acted(alone[k].local, alone[k].cloud, pNextId)
            outAlone == IF \E o \in outs : SameAnswer(o, out, k)
                        THEN CHOOSE o \in outs : SameAnswer(o, out, k)
                        ELSE CHOOSE o \in outs : TRUE
        IN  /\ pLocal' = [pLocal EXCEPT ![k] = Finished(Local(pLocal, k), out)]
            /\ pCloud' = out.cloud
            /\ pNextId' = out.nextId
            /\ alone' = [alone EXCEPT ![k].local = Finished(alone[k].local, outAlone),
                                      ![k].cloud = outAlone.cloud]
    /\ UNCHANGED <<pStore, pCalls>>
    /\ UNCHANGED <<machineVars, clusterVars, clientVars>>

Range(seq) == {seq[i] : i \in DOMAIN seq}

PairPatch(k) ==
    /\ Local(pLocal, k).pc = "done"
    /\ pStore' = [pStore EXCEPT ![k] = PatchedObject(pStore[k], Local(pLocal, k))]
    /\ pCalls' = [pCalls EXCEPT ![k] = pCalls[k] \cup Range(Local(pLocal, k).calls)]
    /\ pLocal' = [pLocal EXCEPT ![k] = IdleLocal]
    /\ alone' = [alone EXCEPT ![k].store = PatchedObject(alone[k].store, alone[k].local),
                              ![k].calls = alone[k].calls \cup Range(alone[k].local.calls),
                              ![k].local = IdleLocal]
    /\ UNCHANGED <<pCloud, pNextId>>
    /\ UNCHANGED <<machineVars, clusterVars, clientVars>>

\* the user deletes machine k
PairSetDeletionTimestamp(k) ==
    /\ ~pStore[k].deletionTimestamp
    /\ pStore' = [pStore EXCEPT ![k].deletionTimestamp = TRUE]
    /\ alone' = [alone EXCEPT ![k].store.deletionTimestamp = TRUE]
    /\ UNCHANGED <<pCloud, pNextId, pLocal, pCalls>>
    /\ UNCHANGED <<machineVars, clusterVars, clientVars>>

\* the cloud moves an instance of machine k to another state
PairCloudSetState(k) ==
    \E id \in DOMAIN Alone(pCloud, k), s \in PairStates :
        /\ pCloud[id].status # s
        /\ id \in DOMAIN alone[k].cloud
        /\ pCloud' = [pCloud EXCEPT ![id].status = s]
        /\ alone' = [alone EXCEPT ![k].cloud[id].status = s]
        /\ UNCHANGED <<pStore, pNextId, pLocal, pCalls>>
        /\ UNCHANGED <<machineVars, clusterVars, clientVars>>

NoWire == [op |-> "none", exchanges |-> <<>>, inst |-> Nil, err |-> Nil]

\* the Client while something else is followed: as constructed, not used
ClientAside ==
    /\ dcClient = NewClient
    /\ now = 0
    /\ wire = NoWire

\* the two machines as applied, nothing reconciled yet
PairStart ==
    /\ pStore = [k \in Keys |-> NamedDataCrunchMachine(k)]
    /\ pCloud = <<>>
    /\ pNextId = 0
    /\ pLocal = [k \in Keys |-> IdleLocal]
    /\ pCalls = [k \in Keys |-> {}]
    /\ alone = [k \in Keys |-> [store |-> NamedDataCrunchMachine(k), cloud |-> <<>>,
                                local |-> IdleLocal, calls |-> {}]]

PairInit == PairStart /\ MachineAside /\ ClusterAside /\ ClientAside

PairNext ==
    \E k \in Keys :
        \/ PairFetch(k)
        \/ PairLookup(k)
        \/ PairAct(k)
        \/ PairPatch(k)
        \/ PairSetDeletionTimestamp(k)
        \/ PairCloudSetState(k)

PairSpec == PairInit /\ [][PairNext]_vars

(***************************************************************************)
(* One Client used for a series of instance operations while the clock     *)
(* runs: every operation authenticates first, the token endpoint grants or *)
(* denies, the instance API answers from the cloud's state or with 500.    *)
(***************************************************************************)
ServerFates == {"ok", "status"}

\* one exchange as put on the wire: how authenticate went, whether the API
\* request was sent and the HTTP status it was answered with
Exchange(auth, status) == [auth |-> auth, sent |-> auth.err = Nil, status |-> status]

\* the ids an operation is asked for: the instances there are and one there is not
ClientTargets == DOMAIN instances \cup {InstanceID(0)}

ClientGetInstance ==
    \E id \in ClientTargets, answer \in AuthAnswers, f \in ServerFates :
        LET auth == authenticate(dcClient, now, answer)
            r == GetInstance(instances, id, makeRequest(auth, f))
        IN  /\ dcClient' = auth.after
            /\ wire' = [op |-> "GetInstance", exchanges |-> <<Exchange(auth, r.status)>>,
                        inst |-> r.inst, err |-> r.err]
            /\ UNCHANGED <<now, instances, nextId, createCalls>>
            /\ UNCHANGED <<dm, erased, ext, last, queued>>
            /\ UNCHANGED <<clusterVars, pairVars>>

ClientCreateInstance ==
    \E answer1 \in AuthAnswers, answer2 \in AuthAnswers, fPost \in ServerFates,
       fGet \in ServerFates :
        LET auth1 == authenticate(dcClient, now, answer1)
            post == Status(makeRequest(auth1, fPost), 201)
            auth2 == authenticate(auth1.after, now, answer2)
            r == CreateInstance(instances, nextId,
                                [Name |-> MachineName, ImageID |-> DefaultImage],
                                makeRequest(auth1, fPost), makeRequest(auth2, fGet))
        IN  /\ createCalls < MaxClientCreates
            /\ createCalls' = createCalls + 1
            /\ dcClient' = IF post = 201 THEN auth2.after ELSE auth1.after
            /\ instances' = r.cloud
            /\ nextId' = r.nextId
            /\ wire' = [op |-> "CreateInstance",
                        exchanges |-> IF post = 201
                                      THEN <<Exchange(auth1, post), Exchange(auth2, r.status)>>
                                      ELSE <<Exchange(auth1, post)>>,
                        inst |-> r.inst, err |-> r.err]
            /\ UNCHANGED now
            /\ UNCHANGED <<dm, erased, ext, last, queued>>
            /\ UNCHANGED <<clusterVars, pairVars>>

\* an operation that returns an error only; outcomes is the set of ways it may end
ClientAct(op, auth, outcomes) ==
    \E r \in outcomes :
        /\ dcClient' = auth.after
        /\ instances' = r.cloud
        /\ wire' = [op |-> op, exchanges |-> <<Exchange(auth, r.status)>>,
                    inst |-> Nil, err |-> r.err]
        /\ UNCHANGED <<now, nextId, createCalls>>
        /\ UNCHANGED <<dm, erased, ext, last, queued>>
        /\ UNCHANGED <<clusterVars, pairVars>>

ClientDeleteInstance ==
    \E id \in ClientTargets, answer \in AuthAnswers, f \in ServerFates :
        LET auth == authenticate(dcClient, now, answer) IN
        ClientAct("DeleteInstance", auth, {DeleteInstance(instances, id, makeRequest(auth, f))})

ClientStartInstance ==
    \E id \in ClientTargets, answer \in AuthAnswers, f \in ServerFates :
        LET auth == authenticate(dcClient, now, answer) IN
        ClientAct("StartInstance", auth, StartInstance(instances, id, makeRequest(auth, f)))

ClientStopInstance ==
    \E id \in ClientTargets, answer \in AuthAnswers, f \in ServerFates :
        LET auth == authenticate(dcClient, now, answer) IN
        ClientAct("StopInstance", auth, StopInstance(instances, id, makeRequest(auth, f)))

\* time passes
Tick ==
    /\ now < MaxTime
    /\ now' = now + 1
    /\ wire' = NoWire
    /\ UNCHANGED <<dcClient, machineVars, clusterVars, pairVars>>

ClientInit == MachineAside /\ ClusterAside /\ PairStart /\ ClientAside

ClientNext ==
    \/ ClientGetInstance
    \/ ClientCreateInstance
    \/ ClientDeleteInstance
    \/ ClientStartInstance
    \/ ClientStopInstance
    \/ Tick

ClientSpec == ClientInit /\ [][ClientNext]_vars

(***************************************************************************)
(* findInstance on its own: the provider id is any value the field can     *)
(* hold (unset, empty, a part of the prefix, the prefix, a provider id the *)
(* reconciler stamped, one of another provider), the cloud holds any of    *)
(* the instances, and the lookup is applied to them.                       *)
(***************************************************************************)
FindInstanceIDs == {InstanceID(1), InstanceID(2), "instance-1730000000"}

\* the initial parts of "datacrunch://", from the empty string to all of it
PrefixParts == {SubSeq(ProviderIDPrefix, 1, n) : n \in 0..Len(ProviderIDPrefix)}

ProviderIDInputs ==
    {Nil, Some(""), Some("datacrunch:/"), Some(ProviderIDPrefix), Some("aws:///eu-1a/i-0abc")}
    \cup {Some(FormatProviderID(id)) : id \in FindInstanceIDs}

FindClouds ==
    {[id \in ids |-> NewInstanceData([hostname |-> MachineName, image |-> DefaultImage])] :
        ids \in SUBSET FindInstanceIDs}

\* one call of findInstance; the fault is what happens to its GET
FindLookup ==
    \E fault \in {f \in Faults : f.op \in {"none", "get"}} :
        LET found == findInstance(instances, dm, fault) IN
        /\ last' = [NoLast EXCEPT !.branch = "find", !.pre = Some(dm),
                                  !.observed = found.inst,
                                  !.lookup = [inst |-> found.inst, err |-> found.err],
                                  !.calls = found.calls]
        /\ UNCHANGED <<dm, erased, ext, instances, nextId, createCalls, queued>>
        /\ UNCHANGED <<clusterVars, pairVars, clientVars>>

\* reconcileNormal stamps the provider id of an instance of the cloud
FindStamp ==
    \E id \in DOMAIN instances :
        /\ dm' = StampProviderID(dm, Instance(id, instances[id]))
        /\ dm' # dm
        /\ last' = NoLast
        /\ UNCHANGED <<erased, ext, instances, nextId, createCalls, queued>>
        /\ UNCHANGED <<clusterVars, pairVars, clientVars>>

\* spec.providerID is edited in the store
FindSetProviderID ==
    \E p \in ProviderIDInputs :
        /\ dm.providerID # p
        /\ dm' = [dm EXCEPT !.providerID = p]
        /\ last' = NoLast
        /\ UNCHANGED <<erased, ext, instances, nextId, createCalls, queued>>
        /\ UNCHANGED <<clusterVars, pairVars, clientVars>>

FindInit ==
    /\ dm \in {[NewDataCrunchMachine("", Nil) EXCEPT !.providerID = p] : p \in ProviderIDInputs}
    /\ erased = FALSE
    /\ ext = [ownerRef |-> TRUE, paused |-> FALSE, infrastructureReady |-> TRUE,
              dataSecretName |-> TRUE]
    /\ instances \in FindClouds
    /\ nextId = 0
    /\ createCalls = 0
    /\ last = NoLast
    /\ queued = TRUE
    /\ ClusterAside
    /\ PairStart
    /\ ClientAside

FindNext == FindLookup \/ FindStamp \/ FindSetProviderID

FindSpec == FindInit /\ [][FindNext]_vars

(***************************************************************************)
(* reconcileNetwork and reconcileLoadBalancer on their own: the object is  *)
(* any DataCrunchCluster the store can hand to them (endpoint unset, set   *)
(* by the user, set in part; network status and failure domains absent or  *)
(* present), the owner Cluster has one of two names, and the two functions *)
(* are applied to the object in any order, any number of times.            *)
(***************************************************************************)
CustomPort == 8443

\* the endpoint of the custom-endpoint test, and endpoints set in part
CustomEndpoint == APIEndpoint(ClusterName \o ".custom.local", CustomPort)
EndpointInputs ==
    {ZeroEndpoint, UserEndpoint, CustomEndpoint,
     APIEndpoint(ClusterName \o ".custom.local", 0), APIEndpoint("", APIServerPort)}

\* status.network: absent, the empty status, a status naming a VPC
NetworkInputs == {Nil, Some("empty"), Some("vpc-123")}

\* status.failureDomains: absent, the default, domains of the user's, the empty map
FailureDomainInputs ==
    {Nil, Some([default |-> [controlPlane |-> TRUE]]),
     Some([default |-> [controlPlane |-> FALSE]]), Some(<<>>)}

\* the names of the owner Cluster
ClusterNameInputs == {ClusterName, MachineName \o "-cluster"}

SubNetwork ==
    LET r == reconcileNetwork(dc) IN
    /\ dc' = r.c
    /\ dcLast' = [ClusterNoLast EXCEPT !.branch = "network", !.pre = Some(dc),
                                       !.post = Some(r.c), !.err = r.err]
    /\ UNCHANGED <<dcErased, dcExt, dcQueued, dcSucceeded>>
    /\ UNCHANGED <<machineVars, pairVars, clientVars>>

SubLoadBalancer ==
    \E clusterName \in ClusterNameInputs :
        LET r == reconcileLoadBalancer(dc, clusterName) IN
        /\ dc' = r.c
        /\ dcLast' = [ClusterNoLast EXCEPT !.branch = "loadBalancer", !.pre = Some(dc),
                                           !.post = Some(r.c), !.err = r.err,
                                           !.cluster = clusterName]
        /\ UNCHANGED <<dcErased, dcExt, dcQueued, dcSucceeded>>
        /\ UNCHANGED <<machineVars, pairVars, clientVars>>

SubInit ==
    /\ dc \in {[NewDataCrunchCluster(endpoint, Nil) EXCEPT !.finalizer = TRUE,
                                                           !.network = network,
                                                           !.failureDomains = domains] :
                  endpoint \in EndpointInputs, network \in NetworkInputs,
                  domains \in FailureDomainInputs}
    /\ dcErased = FALSE
    /\ dcExt = [ownerRef |-> TRUE, paused |-> FALSE]
    /\ dcLast = ClusterNoLast
    /\ dcQueued = TRUE
    /\ dcSucceeded = FALSE
    /\ MachineAside
    /\ PairStart
    /\ ClientAside

SubNext == SubNetwork \/ SubLoadBalancer

SubSpec == SubInit /\ [][SubNext]_vars

ClusterInit == ClusterStart /\ MachineAside /\ PairStart /\ ClientAside

ClusterNext ==
    \/ ClusterReconcile
    \/ ClusterSetOwnerRef
    \/ ClusterTogglePaused
    \/ ClusterSetDeletionTimestamp
    \/ ClusterNotify

ClusterSpec == ClusterInit /\ [][ClusterNext]_vars

\* the cluster reconciler for clusters applied with any of the endpoints, also
\* those with the host or the port left for the provider to fill in
EndpointInit ==
    /\ dc \in {NewDataCrunchCluster(endpoint, Nil) : endpoint \in EndpointInputs}
    /\ dcErased = FALSE
    /\ dcExt = [ownerRef |-> FALSE, paused |-> FALSE]
    /\ dcLast = ClusterNoLast
    /\ dcQueued = TRUE
    /\ dcSucceeded = FALSE
    /\ MachineAside
    /\ PairStart
    /\ ClientAside

EndpointSpec == EndpointInit /\ [][ClusterNext]_vars

\* the cluster reconciler with the callees of reconcileNormal made to fail
FailNext ==
    \/ ClusterReconcile
    \/ ClusterReconcileFailing
    \/ ClusterSetOwnerRef
    \/ ClusterTogglePaused
    \/ ClusterSetDeletionTimestamp
    \/ ClusterNotify

FailSpec == ClusterInit /\ [][FailNext]_vars

Init == MachineStart /\ ClusterAside /\ PairStart /\ ClientAside

Next ==
    \/ Reconcile
    \/ SetOwnerRef
    \/ InfrastructureBecomesReady
    \/ BootstrapDataAvailable
    \/ TogglePaused
    \/ SetDeletionTimestamp
    \/ CloudSetState
    \/ CloudSetAddresses
    \/ CloudRemoveInstance
    \/ Notify

Spec == Init /\ [][Next]_vars

\* Both reconcilers from the creation of their objects to the erasure, with
\* the keys still delivered after that; the cloud is left to the reconcilers.
GoneInit == MachineStart /\ ClusterStart /\ PairStart /\ ClientAside

GoneNext ==
    \/ Reconcile
    \/ SetOwnerRef
    \/ InfrastructureBecomesReady
    \/ BootstrapDataAvailable
    \/ SetDeletionTimestamp
    \/ ClusterReconcile
    \/ ClusterSetOwnerRef
    \/ ClusterSetDeletionTimestamp

GoneSpec == GoneInit /\ [][GoneNext]_vars

\* Both reconcilers while the owner references come and the pause markers
\* are set and cleared, up to the deletion of the objects; the cloud answers
\* every call, the store may refuse a patch.
ReconcileUnfailing == \E patchOK \in BOOLEAN : Invoke(NoFault, patchOK)

PauseNext ==
    \/ ReconcileUnfailing
    \/ SetOwnerRef
    \/ InfrastructureBecomesReady
    \/ BootstrapDataAvailable
    \/ TogglePaused
    \/ SetDeletionTimestamp
    \/ ClusterReconcile
    \/ ClusterSetOwnerRef
    \/ ClusterTogglePaused
    \/ ClusterSetDeletionTimestamp

PauseSpec == Init /\ [][PauseNext]_vars

\* A machine declared with tags of its own, as the e2e helper declares it,
\* from its creation to a running instance; the declared spec is what the
\* invocations are compared with.
UserTags == [environment |-> "test", project |-> "e2e-testing"]
TagInputs == {Nil, Some(UserTags)}
ImageInputs == {"", DefaultImage}

TagInit ==
    /\ dm \in {NewDataCrunchMachine(image, tags) : image \in ImageInputs, tags \in TagInputs}
    /\ erased = FALSE
    /\ ext = [ownerRef |-> FALSE, paused |-> FALSE, infrastructureReady |-> FALSE,
              dataSecretName |-> FALSE]
    /\ instances = <<>>
    /\ nextId = 0
    /\ createCalls = 0
    /\ last = NoLast
    /\ queued = TRUE
    /\ ClusterAside
    /\ PairStart
    /\ ClientAside

TagNext ==
    \/ Reconcile
    \/ SetOwnerRef
    \/ InfrastructureBecomesReady
    \/ BootstrapDataAvailable
    \/ CloudSetState
    \/ Notify

TagSpec == TagInit /\ [][TagNext]_vars

\* The machine's way to a running instance and to its deletion, for the
\* liveness properties; the pause marker and the addresses are left out.
\* The dispatcher delivers a key it holds, retrying after every error and
\* requeue, and the cloud and the store do not fail for ever: when an
\* invocation is due, one in which nothing fails eventually happens.
LiveNext ==
    \/ Reconcile
    \/ SetOwnerRef
    \/ InfrastructureBecomesReady
    \/ BootstrapDataAvailable
    \/ SetDeletionTimestamp
    \/ CloudSetState
    \/ Notify

LiveSpec == Init /\ [][LiveNext]_vars /\ WF_vars(Invoke(NoFault, TRUE))

(***************************************************************************)
(* Properties.  `last` describes the invocation that led to the state, so a *)
(* statement about "a reconcile that ..." is an invariant over the states  *)
(* right after one.                                                        *)
(***************************************************************************)
Ran == last.branch \in {"normal", "delete"}
LastPre == Deref(last.pre)
LastPost == Deref(last.post)
LastObserved == Deref(last.observed)
Ops(calls) == {calls[i].op : i \in DOMAIN calls}

\* C1: over any sequence of reconciles of one machine, also when an earlier
\* stamp of the provider id did not reach the store, at most one
\* CreateInstance call is ever issued.
C1_AtMostOneCreateCall == createCalls <= 1

\* C2: once the reconciler has removed the finalizer (the store has erased
\* the object), no instance created for the machine is still live.
C2_NoLiveInstanceOnceFinalizerRemoved == erased => DOMAIN instances = {}

\* C3 as stated: once failureReason or failureMessage is set, no later
\* reconcile, normal or delete branch, makes any cloud call.
C3_NoCloudCallOnceFailed ==
    (Ran /\ (LastPre.failureReason # Nil \/ LastPre.failureMessage # Nil))
        => last.calls = <<>>

\* C3 as amended: once failureReason or failureMessage is set, a later
\* normal-branch reconcile makes no cloud call; a delete-branch reconcile
\* still looks the instance up and deletes it, and makes no other call.
C3_NoCloudCallOnceFailedOnNormalBranch ==
    (Ran /\ (LastPre.failureReason # Nil \/ LastPre.failureMessage # Nil))
        => IF last.branch = "normal"
           THEN last.calls = <<>>
           ELSE Ops(last.calls) \subseteq {"GetInstance", "DeleteInstance"}

\* a failed machine whose instance is still in the cloud has been reconciled
\* on the normal branch
C3_Witness ==
    /\ last.branch = "normal"
    /\ LastPre.failureReason # Nil
    /\ \E id \in DOMAIN instances : Referenced(id)

\* C4: with failureReason or failureMessage set, a normal-branch reconcile
\* returns success with no requeue, changes nothing of the object and calls
\* no cloud operation, whatever the cloud now reports; and no reconcile of
\* either branch clears failureReason or failureMessage.
C4_TerminalLatchPersists ==
    (Ran /\ (LastPre.failureReason # Nil \/ LastPre.failureMessage # Nil))
        => /\ dm.failureReason = LastPre.failureReason
           /\ dm.failureMessage = LastPre.failureMessage
           /\ LastPost.failureReason = LastPre.failureReason
           /\ LastPost.failureMessage = LastPre.failureMessage
           /\ last.branch = "normal" =>
                 /\ last.result = NoRequeue
                 /\ last.err = Nil
                 /\ last.reterr = Nil
                 /\ LastPost = LastPre
                 /\ dm = LastPre
                 /\ last.calls = <<>>

\* a failed machine has been reconciled on the normal branch while the cloud
\* reports its instance as running
C4_Witness ==
    /\ last.branch = "normal"
    /\ LastPre.failureReason # Nil
    /\ \E id \in DOMAIN instances : Referenced(id) /\ instances[id].status = "running"

\* C5: when a machine with a deletion timestamp is reconciled and the lookup
\* of its instance fails with an error other than not-found, the finalizer
\* is kept and a requeue is requested.
C5_LookupFailureKeepsFinalizer ==
    (last.branch = "delete" /\ last.lookup.err # Nil)
        => /\ LastPost.finalizer
           /\ last.result.requeueAfter > 0 \/ last.err # Nil

C7_ProviderIDWriteOnce ==
    [][ /\ dm.providerID # Nil => dm'.providerID = dm.providerID
        /\ last'.branch \in {"normal", "delete"} =>
              LET pre == Deref(last'.pre)
                  post == Deref(last'.post)
              IN  /\ pre.providerID # Nil => post.providerID = pre.providerID
                  /\ (pre.providerID = Nil /\ post.providerID # Nil) =>
                        /\ last'.branch = "normal"
                        /\ last'.observed # Nil
                        /\ post.providerID = Some("datacrunch://" \o Deref(last'.observed).ID)
      ]_vars

\* a reconcile went by another instance than the one the provider id names,
\* and the provider id stayed
C7_Witness ==
    /\ last.branch = "normal"
    /\ last.patched
    /\ LastPre.providerID = Some("datacrunch://i1")
    /\ last.observed # Nil /\ LastObserved.ID = "i2"
    /\ dm.providerID = Some("datacrunch://i1")

\* C8: when the observed instance is running, the reconcile sets ready,
\* marks InstanceReady True and makes status.addresses exactly the host name,
\* then the internal address iff there is one, then the external address iff
\* there is one, whatever the list was before.
C8_RunningSetsReadyAndAddresses ==
    (last.branch = "normal" /\ last.observed # Nil /\ LastObserved.State = "running")
        => LET inst == LastObserved
               a == LastPost.addresses
               hasPriv == inst.PrivateIP # ""
               hasPub == inst.PublicIP # ""
           IN  /\ LastPost.ready
               /\ LastPost.condition # Nil /\ Deref(LastPost.condition).status = "True"
               /\ Len(a) = 1 + (IF hasPriv THEN 1 ELSE 0) + (IF hasPub THEN 1 ELSE 0)
               /\ a[1] = [type |-> "Hostname", address |-> inst.Name]
               /\ hasPriv => a[2] = [type |-> "InternalIP", address |-> inst.PrivateIP]
               /\ hasPub => a[Len(a)] = [type |-> "ExternalIP", address |-> inst.PublicIP]

\* a running instance with an internal address only was observed by a
\* machine that held three addresses, and it now holds two
C8_Witness ==
    /\ last.branch = "normal"
    /\ last.observed # Nil /\ LastObserved.State = "running"
    /\ LastObserved.PrivateIP = "10.0.1.100" /\ LastObserved.PublicIP = ""
    /\ Len(LastPre.addresses) = 3
    /\ Len(LastPost.addresses) = 2

\* C9: for a provider id carrying instance id X, findInstance asks the cloud
\* for X; on 404 it returns (nil, nil), on any other failure (nil, error),
\* on 200 the instance.
C9_NotFoundMapsToNilNil ==
    (Ran /\ last.calls # <<>> /\ last.calls[1].op = "GetInstance")
        => LET c == last.calls[1] IN
           /\ LastPre.providerID = Some("datacrunch://" \o c.id)
           /\ c.status = 404 => last.lookup = [inst |-> Nil, err |-> Nil]
           /\ c.status \notin {200, 404} => last.lookup.inst = Nil /\ last.lookup.err # Nil
           /\ c.status = 200 =>
                 /\ last.lookup.err = Nil
                 /\ last.lookup.inst # Nil
                 /\ Deref(last.lookup.inst).ID = c.id

\* the cloud answered 404 for the instance of the provider id and the lookup
\* returned no instance and no error
C9_Witness ==
    /\ Ran /\ last.calls # <<>>
    /\ last.calls[1] = Call("GetInstance", "i1", 404)
    /\ last.lookup = [inst |-> Nil, err |-> Nil]

\* C10: whenever a normal-branch reconcile observes the instance pending,
\* afterwards ready is false, InstanceReady is False with severity Info,
\* instanceState is pending, and a 30 s requeue is requested with no error.
C10_PendingLeavesNotReady ==
    (last.branch = "normal" /\ last.observed # Nil /\ LastObserved.State = "pending")
        => /\ ~LastPost.ready
           /\ LastPost.condition # Nil
           /\ Deref(LastPost.condition).status = "False"
           /\ Deref(LastPost.condition).severity = "Info"
           /\ LastPost.instanceState = Some("pending")
           /\ last.result.requeueAfter = 30
           /\ last.err = Nil

\* C11 as stated: a normal-branch reconcile that observes the instance
\* terminated sets failureReason and failureMessage, marks InstanceReady
\* False with severity Error and requests no requeue, and every later
\* reconcile of the machine, of either branch, makes no cloud call.
C11_TerminatedEndsAllCloudCalls ==
    /\ (last.branch = "normal" /\ last.observed # Nil /\ LastObserved.State = "terminated")
          => /\ LastPost.failureReason # Nil
             /\ LastPost.failureMessage # Nil
             /\ last.result = NoRequeue
    /\ (Ran /\ LastPre.instanceState = Some("terminated") /\ LastPre.failureReason # Nil)
          => last.calls = <<>>

\* C11 as amended: a normal-branch reconcile that observes the instance
\* terminated sets failureReason and failureMessage, marks InstanceReady
\* False with severity Error and returns no requeue and no error; once that
\* is persisted, a later normal-branch reconcile makes no cloud call and
\* changes nothing, while a delete-branch reconcile still looks the instance
\* up and deletes it.
C11_TerminatedLatches ==
    /\ (last.branch = "normal" /\ last.observed # Nil /\ LastObserved.State = "terminated")
          => /\ LastPost.failureReason # Nil
             /\ LastPost.failureMessage # Nil
             /\ LastPost.instanceState = Some("terminated")
             /\ LastPost.condition # Nil
             /\ Deref(LastPost.condition).status = "False"
             /\ Deref(LastPost.condition).severity = "Error"
             /\ last.result = NoRequeue
             /\ last.err = Nil
             /\ "StartInstance" \notin Ops(last.calls)
    /\ (Ran /\ LastPre.instanceState = Some("terminated") /\ LastPre.failureReason # Nil)
          => IF last.branch = "normal"
             THEN last.calls = <<>> /\ LastPost = LastPre
             ELSE /\ Ops(last.calls) \subseteq {"GetInstance", "DeleteInstance"}
                  /\ last.calls # <<>>
                  /\ last.calls[1].op = "GetInstance"

\* a machine that latched on a terminated instance has been reconciled again
\* on the normal branch, after the cloud took the instance away
C11_Witness ==
    /\ last.branch = "normal"
    /\ LastPre.instanceState = Some("terminated")
    /\ LastPre.failureMessage = Some("Instance was terminated")
    /\ LastPre.providerID # Nil
    /\ ParseProviderID(Deref(LastPre.providerID)) \notin DOMAIN instances
    /\ last.calls = <<>>

\* C17: a normal-branch reconcile that finds the finalizer absent adds it and
\* returns at once with no cloud call, no requeue and no error; so every
\* CreateInstance and StartInstance call is made by an invocation whose
\* fetched object already carried the finalizer.
C17_FinalizerBeforeSideEffects ==
    /\ (last.branch = "normal" /\ ~LastPre.finalizer)
          => /\ LastPost = [LastPre EXCEPT !.finalizer = TRUE]
             /\ last.calls = <<>>
             /\ last.result = NoRequeue
             /\ last.err = Nil
    /\ (Ran /\ Ops(last.calls) \cap {"CreateInstance", "StartInstance"} # {})
          => LastPre.finalizer

\* the finalizer was added by a reconcile that could have gone on to create
\* the instance: the cluster was ready and the bootstrap data there
C17_Witness ==
    /\ last.branch = "normal"
    /\ ~LastPre.finalizer
    /\ LastPost.finalizer
    /\ ext.infrastructureReady /\ ext.dataSecretName
    /\ last.calls = <<>>

\* C18: on the delete branch, when the instance is found and DeleteInstance
\* fails, the error is returned with a 30 s requeue and the finalizer stays;
\* the finalizer goes in the same invocation only when DeleteInstance
\* succeeded or the lookup returned no instance.
C18_DeleteFailureKeepsFinalizer ==
    last.branch = "delete" =>
        LET n == Len(last.calls)
            deleted == n > 0 /\ last.calls[n].op = "DeleteInstance"
        IN  /\ last.lookup.inst # Nil <=> deleted
            /\ deleted => last.calls[n].id = Deref(last.lookup.inst).ID
            /\ (deleted /\ last.calls[n].status \notin {200, 204})
                  => /\ last.err # Nil
                     /\ last.result = RequeueAfter30
                     /\ LastPost.finalizer = LastPre.finalizer
                     /\ dm.finalizer = LastPre.finalizer
                     /\ ~erased
            /\ (LastPre.finalizer /\ ~LastPost.finalizer)
                  => \/ last.lookup.inst = Nil
                     \/ deleted /\ last.calls[n].status \in {200, 204}

\* the instance was found, its deletion failed and the finalizer is still there
C18_Witness ==
    /\ last.branch = "delete"
    /\ last.calls = <<Call("GetInstance", "i1", 200), Call("DeleteInstance", "i1", 500)>>
    /\ last.err # Nil
    /\ dm.finalizer
    /\ "i1" \in DOMAIN instances

\* C19: a normal-branch reconcile that observes the instance stopped issues
\* exactly one StartInstance call, for that instance, and requests a 30 s
\* requeue; it returns an error exactly when the start call failed, with the
\* same requeue; failureReason and failureMessage are not set either way.
C19_StoppedStartsOnce ==
    (last.branch = "normal" /\ last.observed # Nil /\ LastObserved.State = "stopped")
        => LET n == Len(last.calls)
               starts == {i \in DOMAIN last.calls : last.calls[i].op = "StartInstance"}
           IN  /\ starts = {n}
               /\ last.calls[n].id = LastObserved.ID
               /\ last.result = RequeueAfter30
               /\ last.result.requeueAfter = 30
               /\ last.err # Nil <=> last.calls[n].status # 200
               /\ LastPost.failureReason = Nil
               /\ LastPost.failureMessage = Nil

\* the start call for the stopped instance failed and the reconcile returned
\* the error
C19_Witness ==
    /\ last.branch = "normal"
    /\ last.observed # Nil /\ LastObserved.State = "stopped"
    /\ last.calls = <<Call("GetInstance", "i1", 200), Call("StartInstance", "i1", 500)>>
    /\ last.err # Nil

\* C20: for every observed instance state other than running, pending,
\* stopped and terminated, the reconcile marks InstanceReady False with
\* severity Warning and a message that carries the state as reported,
\* records the state in status.instanceState, makes no cloud call after the
\* one that reported the state, and requests a 30 s requeue with no error.
C20_UnknownStateWarnsAndRequeues ==
    (/\ last.branch = "normal"
     /\ last.observed # Nil
     /\ LastObserved.State \notin {"running", "pending", "stopped", "terminated"})
        => LET c == Deref(LastPost.condition)
               state == LastObserved.State
               n == Len(state)
           IN  /\ LastPost.condition # Nil
               /\ c.status = "False"
               /\ c.severity = "Warning"
               /\ c.reason = "InstanceNotReady"
               /\ Len(c.message) > n
               /\ SubSeq(c.message, Len(c.message) - n + 1, Len(c.message)) = state
               /\ LastPost.instanceState = Some(state)
               /\ Ops(last.calls) = {"GetInstance"}
               /\ Len(last.calls) = 1
               /\ last.result.requeueAfter = 30
               /\ last.err = Nil
               /\ LastPost.failureReason = Nil
               /\ LastPost.ready = LastPre.ready

\* an instance that was running is now shutting down, and the reconcile has
\* recorded that state
C20_Witness ==
    /\ last.branch = "normal"
    /\ last.observed # Nil /\ LastObserved.State = "shutting-down"
    /\ LastPre.instanceState = Some("running")
    /\ LastPost.instanceState = Some("shutting-down")

(***************************************************************************)
(* Liveness, under LiveSpec.                                               *)
(***************************************************************************)
\* the instance the persisted provider id names is in the cloud
HasInstance ==
    /\ dm.providerID # Nil
    /\ ParseProviderID(Deref(dm.providerID)) \in DOMAIN instances

TheInstance == instances[ParseProviderID(Deref(dm.providerID))]

\* the machine is past the gates and its instance, created pending, is
\* being waited for: the reconcile that saw it pending has asked for a requeue
Provisioning ==
    /\ ~erased /\ ~dm.deletionTimestamp
    /\ ext.ownerRef /\ ext.infrastructureReady /\ ext.dataSecretName
    /\ dm.finalizer
    /\ ~IsTerminal(dm)
    /\ HasInstance /\ TheInstance.status = "pending"
    /\ dm.instanceState = Some("pending")
    /\ queued

\* nothing takes the machine off its way: it is not deleted, and its
\* instance is neither removed nor terminated
Unhindered ==
    /\ ~dm.deletionTimestamp
    /\ HasInstance /\ TheInstance.status # "terminated"

InstanceRunning == HasInstance /\ TheInstance.status = "running"

MachineRunning ==
    /\ dm.instanceState = Some("running")
    /\ dm.ready
    /\ dm.addresses # <<>>

Deleting ==
    /\ ~erased
    /\ dm.deletionTimestamp
    /\ dm.finalizer
    /\ queued

\* C14: for a machine with a deletion timestamp and the finalizer, if
\* reconciles are retried after every error and requeue and the deletion of
\* the instance eventually succeeds (or the instance is gone already), then
\* the finalizer is eventually removed and the store erases the object.
C14_DeletionCompletes == Deleting ~> (erased /\ ~dm.finalizer)

\* the object was erased by a reconcile that found the instance and deleted it
C14_Witness ==
    /\ erased
    /\ last.branch = "delete"
    /\ last.calls = <<Call("GetInstance", "i1", 200), Call("DeleteInstance", "i1", 204)>>
    /\ LastPre.finalizer
    /\ ~dm.finalizer

(***************************************************************************)
(* The DataCrunchCluster reconciler, under ClusterSpec.                    *)
(***************************************************************************)
ClusterRan == dcLast.branch \in {"normal", "delete"}
ClusterPre == Deref(dcLast.pre)
ClusterPost == Deref(dcLast.post)

\* C12: status.ready of a DataCrunchCluster is true only after a reconcile in
\* which the network and the load-balancer sub-reconciliation both returned
\* success; a reconcile in which one of them failed or did not run (it only
\* added the finalizer, or it was the delete branch) does not set it.
C12_ReadyOnlyAfterBothSucceed ==
    /\ dc.ready => dcSucceeded
    /\ ClusterRan =>
          /\ (ClusterPost.ready /\ ~ClusterPre.ready)
                => /\ dcLast.branch = "normal"
                   /\ ClusterPre.finalizer
                   /\ dcLast.network = "ok"
                   /\ dcLast.loadBalancer = "ok"
                   /\ dcLast.err = Nil
          /\ (dcLast.network # "ok" \/ dcLast.loadBalancer # "ok")
                => ClusterPost.ready = ClusterPre.ready
          /\ ~ClusterPre.finalizer => ~ClusterPost.ready

\* a reconcile past the finalizer step has set the placeholder endpoint and
\* made the cluster ready
C12_Witness ==
    /\ dcLast.branch = "normal"
    /\ dcLast.patched
    /\ ~ClusterPre.ready
    /\ IsZero(ClusterPre.controlPlaneEndpoint)
    /\ dc.ready
    /\ ~IsZero(dc.controlPlaneEndpoint)

(***************************************************************************)
(* Keys of erased objects, under GoneSpec.                                 *)
(***************************************************************************)
\* C15: an invocation for a key whose object the store no longer holds,
\* machine or cluster, returns success with no requeue, patches nothing,
\* makes no cloud call and leaves the store and the cloud as they are.
C15_NotFoundIsNoOp ==
    /\ [](/\ (last.branch # "none" /\ last.gone)
                => /\ last.result = NoRequeue
                   /\ last.reterr = Nil
                   /\ last.calls = <<>>
                   /\ ~last.patched
                   /\ last.post = Nil
          /\ (dcLast.branch # "none" /\ dcLast.gone)
                => /\ dcLast.result = NoRequeue
                   /\ dcLast.reterr = Nil
                   /\ dcLast.calls = <<>>
                   /\ ~dcLast.patched
                   /\ dcLast.post = Nil)
    /\ [][/\ (erased /\ last' # last)
                => UNCHANGED <<dm, erased, instances, nextId, createCalls>>
          /\ (dcErased /\ dcLast' # dcLast)
                => UNCHANGED <<dc, dcErased, dcSucceeded>>
         ]_vars

\* both keys have been delivered after their objects were erased: the
\* machine's while its instance is still in the cloud, the cluster's while a
\* load balancer was recorded in its status
C15_Witness ==
    /\ erased /\ last.branch = "early" /\ last.gone
    /\ dm.providerID # Nil
    /\ ParseProviderID(Deref(dm.providerID)) \in DOMAIN instances
    /\ dcErased /\ dcLast.branch = "early" /\ dcLast.gone
    /\ dc.loadBalancer # Nil

(***************************************************************************)
(* C16: with at most one invocation in flight per key, the invocations of  *)
(* two different machines interleave in any way and each machine still has *)
(* the status, the provider id and the cloud calls it has when reconciled  *)
(* on its own: at every moment its stored object, the local variables of   *)
(* its invocation, its instances in the cloud and the set of its cloud     *)
(* calls are those of the machine run alone.                               *)
(***************************************************************************)
C16_InterleavingIsInvisible ==
    \A k \in Keys :
        /\ pStore[k] = alone[k].store
        /\ pLocal[k] = alone[k].local
        /\ pCalls[k] = alone[k].calls
        /\ Alone(pCloud, k) = alone[k].cloud

\* the second machine created its instance between the first machine's lookup
\* and its creation call, both were patched, and the second is in flight again
C16_Witness ==
    LET a == "w1-" \o MachineName
        b == "w2-" \o MachineName
    IN  /\ pStore[a].providerID = Some(FormatProviderID(InstanceID(2)))
        /\ pStore[b].providerID = Some(FormatProviderID(InstanceID(1)))
        /\ pStore[a].ready
        /\ pLocal[b].pc = "found"
        /\ pCalls[a] # {}
        /\ pCalls[b] # {}

\* C21: a normal-branch reconcile that finds the finalizer present while the
\* cluster has not reported infrastructure-ready sets InstanceReady to
\* False/Info with reason WaitingForClusterInfrastructure, returns no error
\* and no requeue, makes no cloud call and changes nothing but the condition:
\* providerID, ready and instanceState stay as fetched.
C21_ClusterReadinessGate ==
    (last.branch = "normal" /\ LastPre.finalizer /\ ~ext.infrastructureReady)
        => /\ LastPost = MarkFalse(LastPre, "WaitingForClusterInfrastructure", "Info", "")
           /\ LastPost.providerID = LastPre.providerID
           /\ LastPost.ready = LastPre.ready
           /\ LastPost.instanceState = LastPre.instanceState
           /\ last.err = Nil
           /\ (last.patched => last.reterr = Nil)
           /\ last.result = NoRequeue
           /\ last.calls = <<>>

\* the gate held back a machine whose bootstrap data was already there
C21_Witness ==
    /\ last.branch = "normal"
    /\ LastPre.finalizer
    /\ ~ext.infrastructureReady
    /\ ext.dataSecretName
    /\ LastPost.condition # Nil
    /\ Deref(LastPost.condition).reason = "WaitingForClusterInfrastructure"
    /\ last.patched

\* C22: a normal-branch reconcile that finds the finalizer present and the
\* cluster infrastructure ready while the owner Machine names no bootstrap
\* data secret sets InstanceReady to False/Info with reason
\* WaitingForBootstrapData, returns no error and no requeue and makes no
\* cloud call, CreateInstance included.
C22_BootstrapDataGate ==
    (/\ last.branch = "normal"
     /\ LastPre.finalizer
     /\ ext.infrastructureReady
     /\ ~ext.dataSecretName)
        => /\ LastPost = MarkFalse(LastPre, "WaitingForBootstrapData", "Info", "")
           /\ last.err = Nil
           /\ (last.patched => last.reterr = Nil)
           /\ last.result = NoRequeue
           /\ last.calls = <<>>

\* the gate held back a machine of a ready cluster
C22_Witness ==
    /\ last.branch = "normal"
    /\ LastPre.finalizer
    /\ ext.infrastructureReady
    /\ ~ext.dataSecretName
    /\ LastPost.condition # Nil
    /\ Deref(LastPost.condition).reason = "WaitingForBootstrapData"
    /\ last.patched

\* C23: a deletion timestamp, once set, stays, and every reconcile that
\* fetches the object with it runs the delete branch: it calls neither
\* CreateInstance nor StartInstance, does not add the finalizer, does not
\* stamp the provider id and leaves ready, addresses and instanceState as
\* fetched.
C23_OnlyDeleteBranchOnceDeleting ==
    /\ [][dm.deletionTimestamp => dm'.deletionTimestamp]_vars
    /\ []((Ran /\ LastPre.deletionTimestamp)
            => /\ last.branch = "delete"
               /\ Ops(last.calls) \cap {"CreateInstance", "StartInstance"} = {}
               /\ LastPost.finalizer => LastPre.finalizer
               /\ LastPost.providerID = LastPre.providerID
               /\ LastPost.ready = LastPre.ready
               /\ LastPost.addresses = LastPre.addresses
               /\ LastPost.instanceState = LastPre.instanceState)

\* a machine deleted before it had an instance, with the gates open: the
\* normal branch would have created one
C23_Witness ==
    /\ last.branch = "delete"
    /\ LastPre.deletionTimestamp
    /\ LastPre.finalizer
    /\ LastPre.providerID = Nil
    /\ ext.infrastructureReady /\ ext.dataSecretName
    /\ last.calls = <<>>
    /\ instances = <<>>

\* C24: findInstance makes no cloud call and returns (nil, nil) when the
\* provider id is unset or holds nothing after "datacrunch://" (the empty
\* string, a part of the prefix, the bare prefix); and for the provider id
\* the reconciler forms from a non-empty instance id X, the id it parses back
\* is X and its one call is GetInstance of X.
C24_FindInstanceParsesProviderID ==
    /\ \A id \in FindInstanceIDs : ParseProviderID(FormatProviderID(id)) = id
    /\ last.branch = "find"
          => /\ (LastPre.providerID = Nil \/ Deref(LastPre.providerID) \in PrefixParts)
                   => /\ last.calls = <<>>
                      /\ last.lookup = [inst |-> Nil, err |-> Nil]
             /\ \A id \in FindInstanceIDs :
                   LastPre.providerID = Some(FormatProviderID(id))
                      => /\ Len(last.calls) = 1
                         /\ last.calls[1].op = "GetInstance"
                         /\ last.calls[1].id = id

\* the lookup for the bare prefix, with instances in the cloud
C24_Witness ==
    /\ last.branch = "find"
    /\ LastPre.providerID = Some(ProviderIDPrefix)
    /\ instances # <<>>
    /\ last.calls = <<>>

C26_PatchOnEveryReturn ==
    /\ [](Ran =>
            /\ last.patched => dm = LastPost
            /\ ~last.patched => (dm = LastPre /\ last.reterr # Nil /\ queued)
            /\ last.err # Nil => last.reterr = last.err
            /\ (last.err = Nil /\ last.patched) => last.reterr = Nil)
    /\ [][(ClusterReconcile /\ dcLast'.branch \in {"normal", "delete"})
            => /\ dcLast'.patched => dc' = Deref(dcLast'.post)
               /\ ~dcLast'.patched => (dc' = dc /\ dcLast'.reterr # Nil /\ dcQueued')
               /\ dcLast'.err # Nil => dcLast'.reterr = dcLast'.err
               /\ (dcLast'.err = Nil /\ dcLast'.patched) => dcLast'.reterr = Nil]_vars

\* a Machine reconcile failed to create the instance and its condition
\* reached the store with the error returned, and a Cluster reconcile without
\* an error of its own returned the error of its failed patch
C26_Witness ==
    /\ last.branch = "normal"
    /\ last.err # Nil
    /\ last.reterr = last.err
    /\ last.patched
    /\ dm.condition # Nil
    /\ Deref(dm.condition).reason = "InstanceCreationFailed"
    /\ LastPre.condition # dm.condition
    /\ dcLast.branch = "normal"
    /\ dcLast.err = Nil
    /\ ~dcLast.patched
    /\ dcLast.reterr # Nil
    /\ dcQueued

\* C27: a normal-branch Cluster reconcile that finds the cluster finalizer
\* absent adds it and returns at once with no error and no requeue: it builds
\* no cloud client, runs neither sub-reconciliation, makes no cloud call and
\* leaves status.ready, status.network, status.failureDomains and the
\* control-plane endpoint as fetched.
C27_ClusterFinalizerFirst ==
    (dcLast.branch = "normal" /\ ~ClusterPre.finalizer)
        => /\ ClusterPost = [ClusterPre EXCEPT !.finalizer = TRUE]
           /\ ClusterPost.ready = ClusterPre.ready
           /\ ClusterPost.network = ClusterPre.network
           /\ ClusterPost.failureDomains = ClusterPre.failureDomains
           /\ ClusterPost.controlPlaneEndpoint = ClusterPre.controlPlaneEndpoint
           /\ dcLast.err = Nil
           /\ dcLast.result = NoRequeue
           /\ ~dcLast.client
           /\ dcLast.network = "none" /\ dcLast.loadBalancer = "none"
           /\ dcLast.calls = <<>>

\* the finalizer reached the store of a cluster whose endpoint is still unset
\* and which is not ready
C27_Witness ==
    /\ dcLast.branch = "normal"
    /\ ~ClusterPre.finalizer
    /\ dcLast.patched
    /\ dc.finalizer
    /\ ~dc.ready
    /\ IsZero(dc.controlPlaneEndpoint)
    /\ dc.network = Nil

\* the endpoint reconcileLoadBalancer makes up for a cluster name
PlaceholderEndpoint(clusterName) ==
    APIEndpoint("cluster-" \o clusterName \o ".datacrunch.local", APIServerPort)

\* C28: reconcileLoadBalancer leaves an endpoint that is set as it is and
\* sets an unset one to host "cluster-<cluster name>.datacrunch.local", port
\* 6443, a value fixed by the cluster name; it changes nothing else, always
\* returns success, makes no cloud call, and a second application changes
\* nothing the first did.
C28_LoadBalancerEndpointSetOnce ==
    /\ \A clusterName \in ClusterNameInputs :
          LET once == reconcileLoadBalancer(dc, clusterName) IN
          /\ reconcileLoadBalancer(once.c, clusterName) = once
          /\ once.err = Nil
    /\ dcLast.branch = "loadBalancer"
          => /\ dcLast.err = Nil
             /\ dcLast.calls = <<>>
             /\ dc = ClusterPost
             /\ ~IsZero(ClusterPre.controlPlaneEndpoint) => ClusterPost = ClusterPre
             /\ IsZero(ClusterPre.controlPlaneEndpoint)
                   => ClusterPost = [ClusterPre EXCEPT !.controlPlaneEndpoint =
                                        PlaceholderEndpoint(dcLast.cluster)]
             /\ ~IsZero(ClusterPost.controlPlaneEndpoint)

\* the endpoint of the custom-endpoint test came through the function as it was
C28_Witness ==
    /\ dcLast.branch = "loadBalancer"
    /\ ClusterPre.controlPlaneEndpoint = CustomEndpoint
    /\ dc.controlPlaneEndpoint = CustomEndpoint
    /\ dcLast.cluster = ClusterName

\* C29: reconcileNetwork always returns success, and after it status.network
\* and status.failureDomains are non-nil: an absent network status becomes
\* the empty one, absent failure domains become the single domain "default"
\* with controlPlane true, and a field that was present, like everything else
\* in the object, is left as it was.
C29_NetworkInitialisedWhenAbsent ==
    dcLast.branch = "network"
        => /\ dcLast.err = Nil
           /\ dc = ClusterPost
           /\ ClusterPost.network # Nil
           /\ ClusterPost.failureDomains # Nil
           /\ ClusterPost =
                 [ClusterPre EXCEPT
                     !.network = IF ClusterPre.network = Nil THEN Some("empty")
                                 ELSE ClusterPre.network,
                     !.failureDomains =
                         IF ClusterPre.failureDomains = Nil
                         THEN Some([default |-> [controlPlane |-> TRUE]])
                         ELSE ClusterPre.failureDomains]

\* the network status was absent and got initialised while the failure
\* domains of the user's stayed
C29_Witness ==
    /\ dcLast.branch = "network"
    /\ ClusterPre.network = Nil
    /\ ClusterPre.failureDomains = Some([default |-> [controlPlane |-> FALSE]])
    /\ dc.network = Some("empty")
    /\ dc.failureDomains = ClusterPre.failureDomains

\* C30: a delete-branch Cluster reconcile removes the cluster finalizer and
\* returns success with no requeue in every case; DeleteLoadBalancer is
\* called exactly when a load balancer is recorded in status, its failure
\* (the stub client always fails) changes nothing of that, and once the
\* patch is through the store erases the object.
C30_ClusterDeleteAlwaysReleases ==
    dcLast.branch = "delete"
        => /\ ClusterPost = [ClusterPre EXCEPT !.finalizer = FALSE]
           /\ dcLast.err = Nil
           /\ dcLast.result = NoRequeue
           /\ dcLast.patched => dcLast.reterr = Nil
           /\ ClusterPre.loadBalancer = Nil => dcLast.calls = <<>>
           /\ ClusterPre.loadBalancer # Nil
                 => /\ Len(dcLast.calls) = 1
                    /\ dcLast.calls[1].op = "DeleteLoadBalancer"
                    /\ dcLast.calls[1].id = Deref(ClusterPre.loadBalancer).id
                    /\ DeleteLoadBalancer(dcLast.calls[1].id) # Nil
           /\ dcLast.patched => (dcErased /\ ~dc.finalizer)

\* the deletion of the recorded load balancer failed and the cluster was
\* released all the same
C30_Witness ==
    /\ dcLast.branch = "delete"
    /\ ClusterPre.finalizer
    /\ ClusterPre.loadBalancer = Some(RecordedLoadBalancer)
    /\ Len(dcLast.calls) = 1
    /\ DeleteLoadBalancer(dcLast.calls[1].id) # Nil
    /\ dcLast.patched
    /\ dcErased
    /\ ~dc.finalizer

Auths == {wire.exchanges[i].auth : i \in DOMAIN wire.exchanges}

\* C32: before an API request the Client sends a token request exactly when
\* its cached token is empty or the time is not before the recorded expiry;
\* a granted token request records the token granted with expiry = now +
\* expires_in, a denied one and a skipped one leave the cached token alone.
\* So with a non-empty, unexpired token no operation sends a token request,
\* however many follow each other.
C32_TokenRequestedIffMissingOrExpired ==
    \A a \in Auths :
        /\ a.sent <=> (a.before.token = "" \/ ~(a.at < a.before.tokenExpiry))
        /\ (a.sent /\ Deref(a.answer).kind = "ok")
              => a.after = [token |-> Deref(a.answer).access_token,
                            tokenExpiry |-> a.at + Deref(a.answer).expires_in]
        /\ (~a.sent \/ Deref(a.answer).kind # "ok") => a.after = a.before
        /\ a.at = now

\* an operation made after the token had been granted and had run out: the
\* token was asked for again
C32_Witness ==
    /\ wire.op = "GetInstance"
    /\ wire.exchanges[1].auth.before.token # ""
    /\ wire.exchanges[1].auth.before.tokenExpiry > 0
    /\ wire.exchanges[1].auth.before.tokenExpiry <= now
    /\ wire.exchanges[1].auth.sent
    /\ dcClient.tokenExpiry > now

\* C33: every instance operation of the Client (CreateInstance, GetInstance,
\* DeleteInstance, StartInstance, StopInstance) returns an error and no
\* instance whenever authenticate failed for one of its requests, that
\* request then not being sent, or a request was answered with a status
\* outside 200..299; it returns success only when each request it sent was
\* answered with a 2xx status.
C33_ErrorUnlessAuthenticatedAnd2xx ==
    wire.op # "none" =>
        LET failed == {i \in DOMAIN wire.exchanges :
                          \/ wire.exchanges[i].auth.err # Nil
                          \/ wire.exchanges[i].status \notin 200..299}
        IN  /\ \A i \in DOMAIN wire.exchanges :
                  wire.exchanges[i].auth.err # Nil
                     => (~wire.exchanges[i].sent /\ wire.exchanges[i].status = 0)
            /\ failed # {} => (wire.err # Nil /\ wire.inst = Nil)
            /\ wire.err = Nil => failed = {}
            /\ wire.inst # Nil => (wire.err = Nil /\ wire.op \in {"CreateInstance", "GetInstance"})

\* StartInstance of an instance there is was answered 500 and returned an error
C33_Witness ==
    /\ wire.op = "StartInstance"
    /\ wire.exchanges[1].sent
    /\ wire.exchanges[1].status \notin 200..299
    /\ wire.err # Nil
    /\ instances # <<>>

\* the machine was left at the cluster-readiness gate by a reconcile that
\* asked for nothing more: the key is not held any longer
WaitingAtGate ==
    /\ ~erased /\ ~dm.deletionTimestamp
    /\ ext.ownerRef /\ ~ext.paused
    /\ dm.finalizer
    /\ dm.condition # Nil
    /\ Deref(dm.condition).reason = "WaitingForClusterInfrastructure"
    /\ ~queued

\* a reconcile of the machine found the gate open
PastGate ==
    /\ last.branch = "normal"
    /\ LastPre.finalizer
    /\ ext.infrastructureReady
    /\ LastPost.condition # Some([status |-> "False", reason |-> "WaitingForClusterInfrastructure",
                                  severity |-> "Info", message |-> ""])

\* C34: a machine left waiting at the cluster-readiness gate, no requeue
\* asked for, whose cluster then reports its infrastructure ready is
\* eventually reconciled again and gets past the gate (or is deleted first),
\* the key being enqueued only on events of the objects the reconciler
\* watches, on requeues and on errors.
C34_GateResumption ==
    (WaitingAtGate /\ ext.infrastructureReady) ~> (PastGate \/ dm.deletionTimestamp \/ erased)

\* C35: every live instance the reconciler created for the machine is the
\* one its providerID names; looked at right after a normal-branch reconcile
\* that returned no error and whose patch is through, so that no write of
\* the providerID is still under way.
C35_LiveInstancesAreReferenced ==
    (last.branch = "normal" /\ last.reterr = Nil /\ last.patched)
        => \A id \in DOMAIN instances : dm.providerID = Some(FormatProviderID(id))

\* C36: in every state of a DataCrunchMachine, status.ready = true implies
\* status.instanceState = running.
C36_ReadyImpliesRunning ==
    (~erased /\ dm.ready) => dm.instanceState = Some("running")

\* C37: a normal-branch reconcile changes no field of the spec other than
\* providerID: spec.image and spec.additionalTags of the object in the store
\* are after it exactly what they were before it.
C37_SpecUntouchedButProviderID ==
    (last.branch = "normal" /\ last.patched)
        => /\ dm.image = LastPre.image
           /\ dm.additionalTags = LastPre.additionalTags

\* C38: whenever CreateInstance returns an error to a reconcile (which then
\* returns the error and leaves the providerID unset), the cloud holds no
\* instance it did not hold before the call.
C38_FailedCreateLeavesNoInstance ==
    [][(/\ last'.branch = "normal"
        /\ "CreateInstance" \in Ops(last'.calls)
        /\ last'.err # Nil)
          => DOMAIN instances' = DOMAIN instances]_vars

C40_ReadyClusterIsComplete ==
    /\ (~dcErased /\ dc.ready)
          => /\ dc.controlPlaneEndpoint.host # ""
             /\ dc.controlPlaneEndpoint.port # 0
             /\ dc.network # Nil
             /\ dc.failureDomains # Nil
    /\ (ClusterRan /\ ClusterPost.ready /\ ~ClusterPre.ready) => ClusterPre.finalizer
    /\ (ClusterRan /\ ClusterPre.ready) => ClusterPost.ready

====
